---- MODULE Spec2Model ----
(***************************************************************************)
(* A model of the validation-driven ingestion pipeline of the inventory    *)
(* command-line tool: the field validators (validation.rs), the import     *)
(* batch (commands/import.rs), the CSV update batch and the retry loader   *)
(* (commands/update.rs) and the store adapter (db/queries.rs, db/schema.rs).*)
(*                                                                         *)
(* Text is modelled as a sequence of characters; a character is an atom    *)
(* naming one Unicode scalar value ("a", " ", "U+00E9").  Rust's           *)
(* str::len() counts UTF-8 bytes, SQLite's length() counts characters, so  *)
(* both measures are kept.                                                 *)
(***************************************************************************)
EXTENDS Integers, Sequences, FiniteSets, TLC

(***************************************************************************)
(* Option<T>                                                               *)
(***************************************************************************)
None == [some |-> FALSE]
Some(x) == [some |-> TRUE, v |-> x]
IsSome(o) == o.some
UnwrapOr(o, d) == IF o.some THEN o.v ELSE d

(***************************************************************************)
(* Strings                                                                 *)
(***************************************************************************)
Rep(c, n) == [i \in 1..n |-> c]

\* Characters that take two bytes in UTF-8 (the others of the model take one).
TwoByteChars == {"U+00E9"}
Utf8Width(c) == IF c \in TwoByteChars THEN 2 ELSE 1

RECURSIVE ByteLen(_)
\* str::len(): the length in bytes
ByteLen(s) == IF s = <<>> THEN 0 ELSE Utf8Width(Head(s)) + ByteLen(Tail(s))

\* the length in characters (SQLite length(), the spec's "characters")
CharLen(s) == Len(s)

IsWhitespace(c) == c \in {" ", "\t"}
IsAsciiDigit(c) == c \in {"0", "1", "2", "3", "4", "5", "6", "7", "8", "9"}

RECURSIVE TrimStart(_)
TrimStart(s) == IF s # <<>> /\ IsWhitespace(Head(s)) THEN TrimStart(Tail(s)) ELSE s
RECURSIVE TrimEnd(_)
TrimEnd(s) ==
  IF s # <<>> /\ IsWhitespace(s[Len(s)]) THEN TrimEnd(SubSeq(s, 1, Len(s) - 1)) ELSE s
\* str::trim()
Trim(s) == TrimEnd(TrimStart(s))
\* s.trim().is_empty()
IsBlank(s) == Trim(s) = <<>>

UpperToLower ==
  [c \in {"A","B","C","D","E","F","G","H","I","J","K","L","M","N","O","P","Q","R","S",
          "T","U","V","W","X","Y","Z"} |->
     CASE c = "A" -> "a" [] c = "B" -> "b" [] c = "C" -> "c" [] c = "D" -> "d"
       [] c = "E" -> "e" [] c = "F" -> "f" [] c = "G" -> "g" [] c = "H" -> "h"
       [] c = "I" -> "i" [] c = "J" -> "j" [] c = "K" -> "k" [] c = "L" -> "l"
       [] c = "M" -> "m" [] c = "N" -> "n" [] c = "O" -> "o" [] c = "P" -> "p"
       [] c = "Q" -> "q" [] c = "R" -> "r" [] c = "S" -> "s" [] c = "T" -> "t"
       [] c = "U" -> "u" [] c = "V" -> "v" [] c = "W" -> "w" [] c = "X" -> "x"
       [] c = "Y" -> "y" [] c = "Z" -> "z"]
\* str::to_lowercase()
ToLowercase(s) ==
  [i \in 1..Len(s) |-> IF s[i] \in DOMAIN UpperToLower THEN UpperToLower[s[i]] ELSE s[i]]

\* upc.chars().filter(|c| c.is_ascii_digit()).collect().len()
RECURSIVE DigitCount(_)
DigitCount(s) ==
  IF s = <<>> THEN 0
  ELSE (IF IsAsciiDigit(Head(s)) THEN 1 ELSE 0) + DigitCount(Tail(s))

(***************************************************************************)
(* Numbers.  An i32 is an integer of the i32 range.  An f64 is one of      *)
(*   [k |-> "fin", c |-> n]   the finite value n/100,                      *)
(*   [k |-> "big", neg |-> b, txt |-> s] a finite value of magnitude 10^7  *)
(*                            or more, s its decimal digits,               *)
(*   [k |-> "inf", neg |-> b] an infinity,  [k |-> "nan"]  a NaN.          *)
(* Cells of the model carry no exponent, at most two fraction digits and   *)
(* at most fifteen significant digits, so that every finite value is held  *)
(* exactly.                                                                *)
(***************************************************************************)
I32Max == 2147483647
Fin(c) == [k |-> "fin", c |-> c]
Big(neg, txt) == [k |-> "big", neg |-> neg, txt |-> txt]
Inf(neg) == [k |-> "inf", neg |-> neg]
NaN == [k |-> "nan"]
\* f64::MAX
F64Max ==
  Big(FALSE, <<"1","7","9","7","6","9","3","1","3","4","8","6","2","3","1","5","7">> \o Rep("0", 292))
\* variant: unwrap_or(0.0)
ZeroSentinel == Fin(0)
MinusOne == Fin(-100)

DigitVal(c) ==
  CASE c = "0" -> 0 [] c = "1" -> 1 [] c = "2" -> 2 [] c = "3" -> 3 [] c = "4" -> 4
    [] c = "5" -> 5 [] c = "6" -> 6 [] c = "7" -> 7 [] c = "8" -> 8 [] c = "9" -> 9
DigitChar(d) ==
  CASE d = 0 -> "0" [] d = 1 -> "1" [] d = 2 -> "2" [] d = 3 -> "3" [] d = 4 -> "4"
    [] d = 5 -> "5" [] d = 6 -> "6" [] d = 7 -> "7" [] d = 8 -> "8" [] d = 9 -> "9"

AllDigits(s) == \A i \in 1..Len(s) : IsAsciiDigit(s[i])
RECURSIVE StripZeros(_)
StripZeros(s) == IF Len(s) > 1 /\ Head(s) = "0" THEN StripZeros(Tail(s)) ELSE s
RECURSIVE DigitsVal(_)
\* the value of at most nine digits
DigitsVal(s) == IF s = <<>> THEN 0 ELSE DigitsVal(SubSeq(s, 1, Len(s) - 1)) * 10 + DigitVal(s[Len(s)])

HasSign(s) == s # <<>> /\ Head(s) \in {"+", "-"}
Unsigned(s) == IF HasSign(s) THEN Tail(s) ELSE s
IsNeg(s) == s # <<>> /\ Head(s) = "-"

\* str::parse::<i32>(): Ok(n) as Some(n), Err as None
ParseI32(s) ==
  LET d == Unsigned(s)
      z == StripZeros(d)
      neg == IsNeg(s)
  IN IF d = <<>> \/ ~AllDigits(d) THEN None
     ELSE IF Len(z) > 10 THEN None
     ELSE IF Len(z) = 10
       THEN LET hi == DigitsVal(SubSeq(z, 1, 9))
                lo == DigitVal(z[10])
            IN IF hi > 214748364 \/ (hi = 214748364 /\ lo > (IF neg THEN 8 ELSE 7))
                 THEN None
               ELSE IF neg /\ hi = 214748364 /\ lo = 8 THEN Some(-I32Max - 1)
               ELSE Some((IF neg THEN -1 ELSE 1) * (hi * 10 + lo))
     ELSE Some((IF neg THEN -1 ELSE 1) * DigitsVal(z))

\* str::parse::<i64>() on the ids of the model (below 10^9)
ParseI64(s) ==
  LET d == Unsigned(s)
      z == StripZeros(d)
  IN IF d = <<>> \/ ~AllDigits(d) \/ Len(z) > 9 THEN None
     ELSE Some((IF IsNeg(s) THEN -1 ELSE 1) * DigitsVal(z))

\* the fraction digits of to_string() for f hundredths
FracText(f) ==
  IF f = 0 THEN <<>>
  ELSE IF f % 10 = 0 THEN <<".", DigitChar(f \div 10)>>
  ELSE <<".", DigitChar(f \div 10), DigitChar(f % 10)>>

DotAt(s) == IF \E i \in 1..Len(s) : s[i] = "." THEN CHOOSE i \in 1..Len(s) : s[i] = "." ELSE 0

\* str::parse::<f64>(): Ok(x) as Some(x), Err as None
ParseF64(s) ==
  LET u == Unsigned(s)
      neg == IsNeg(s)
      w == ToLowercase(u)
      dot == DotAt(u)
      ip == IF dot = 0 THEN u ELSE SubSeq(u, 1, dot - 1)
      fp == IF dot = 0 THEN <<>> ELSE SubSeq(u, dot + 1, Len(u))
      z == StripZeros(ip)
      frac == IF fp = <<>> THEN 0
              ELSE IF Len(fp) = 1 THEN DigitVal(fp[1]) * 10
              ELSE DigitVal(fp[1]) * 10 + DigitVal(fp[2])
  IN IF w = <<"n", "a", "n">> THEN Some(NaN)
     ELSE IF w \in {<<"i", "n", "f">>, <<"i", "n", "f", "i", "n", "i", "t", "y">>} THEN Some(Inf(neg))
     ELSE IF ~AllDigits(ip) \/ ~AllDigits(fp) \/ (ip = <<>> /\ fp = <<>>) \/ Len(fp) > 2 THEN None
     ELSE IF Len(z) > 7 THEN Some(Big(neg, z \o FracText(frac)))
     ELSE Some(Fin((IF neg THEN -1 ELSE 1) * (DigitsVal(z) * 100 + frac)))

RECURSIVE NatToString(_)
NatToString(n) ==
  IF n < 10 THEN <<DigitChar(n)>> ELSE NatToString(n \div 10) \o <<DigitChar(n % 10)>>
\* i32/i64/usize to_string()
IntToString(n) == IF n < 0 THEN <<"-">> \o NatToString(-n) ELSE NatToString(n)

\* f64::to_string(): the shortest decimal that reads back the same
F64ToString(x) ==
  CASE x.k = "nan" -> <<"N", "a", "N">>
    [] x.k = "inf" -> IF x.neg THEN <<"-", "i", "n", "f">> ELSE <<"i", "n", "f">>
    [] x.k = "big" -> IF x.neg THEN <<"-">> \o x.txt ELSE x.txt
    [] x.k = "fin" ->
         LET a == IF x.c < 0 THEN -x.c ELSE x.c
             body == NatToString(a \div 100) \o FracText(a % 100)
         IN IF x.c < 0 THEN <<"-">> \o body ELSE body

\* price < 0.0 and price > 999999.99 (every comparison with a NaN is false)
PriceMaxCents == 99999999
F64Negative(x) ==
  CASE x.k = "nan" -> FALSE
    [] x.k = "fin" -> x.c < 0
    [] OTHER -> x.neg
F64AboveMax(x) ==
  CASE x.k = "nan" -> FALSE
    [] x.k = "fin" -> x.c > PriceMaxCents
    [] OTHER -> ~x.neg

(***************************************************************************)
(* Validation Engine (validation.rs)                                       *)
(***************************************************************************)
\* ValidationResult::add_error
ValidationError(field, message, row, value) ==
  [field |-> field, message |-> message, row |-> row, value |-> value]

TitleLimit == 80
BrandLimit == 100
QuantityMax == 999999
UpcShort == 12
UpcLong == 13

MsgTitleEmpty == "Title cannot be empty"
MsgPriceNegative == "Price must be non-negative"
MsgPriceMax == "Price exceeds maximum allowed value"
MsgQuantityNegative == "Quantity must be non-negative"
MsgQuantityMax == "Quantity exceeds maximum allowed value"
MsgUpcRequired == "UPC is required for StockX listings"
MsgUpcDigits == "UPC must be 12 or 13 digits"
MsgCategoryEmpty == "Category cannot be empty"
MsgCondition == "Invalid condition. Must be one of: new, used, deadstock, like new, good, fair"
MsgBrand == "Brand name exceeds 100 character limit"
MsgTitleLimit(platform) ==
  CASE platform = "ebay" -> "Exceeds eBay's 80-character limit"
    [] platform = "stockx" -> "Exceeds StockX's 80-character limit"
    [] platform = "poshmark" -> "Exceeds Poshmark's 80-character limit"
    [] platform = "mercari" -> "Exceeds Mercari's 80-character limit"
MsgSize(platform) ==
  CASE platform = "poshmark" -> "Size is required for Poshmark clothing items"
    [] platform = "stockx" -> "Size is required for StockX listings"

\* validate_title_ebay, _stockx, _poshmark, _mercari: the same body, the
\* platform's name in the message
validate_title(platform, title) ==
  (IF ByteLen(title) > TitleLimit
     THEN <<ValidationError("title", MsgTitleLimit(platform), None, Some(title))>>
     ELSE <<>>)
  \o (IF IsBlank(title)
        THEN <<ValidationError("title", MsgTitleEmpty, None, Some(title))>>
        ELSE <<>>)

validate_price(price) ==
  (IF F64Negative(price)
     THEN <<ValidationError("price", MsgPriceNegative, None, Some(F64ToString(price)))>>
     ELSE <<>>)
  \o (IF F64AboveMax(price)
        THEN <<ValidationError("price", MsgPriceMax, None, Some(F64ToString(price)))>>
        ELSE <<>>)

validate_quantity(quantity) ==
  (IF quantity < 0
     THEN <<ValidationError("quantity", MsgQuantityNegative, None, Some(IntToString(quantity)))>>
     ELSE <<>>)
  \o (IF quantity > QuantityMax
        THEN <<ValidationError("quantity", MsgQuantityMax, None, Some(IntToString(quantity)))>>
        ELSE <<>>)

UpcDigitsOk(upc) == DigitCount(upc) = UpcShort \/ DigitCount(upc) = UpcLong

\* variant: `if` in place of `else if`
validate_upc_stockx_both(upc) ==
  (IF IsBlank(upc)
     THEN <<ValidationError("upc", MsgUpcRequired, None, Some(upc))>>
     ELSE <<>>)
  \o (IF ~UpcDigitsOk(upc)
        THEN <<ValidationError("upc", MsgUpcDigits, None, Some(upc))>>
        ELSE <<>>)

validate_upc_stockx(upc) ==
  IF IsBlank(upc)
    THEN <<ValidationError("upc", MsgUpcRequired, None, Some(upc))>>
  ELSE IF ~UpcDigitsOk(upc)
    THEN <<ValidationError("upc", MsgUpcDigits, None, Some(upc))>>
  ELSE <<>>

\* variant: the eBay validator refusing a blank UPC as the StockX validator does
validate_upc_ebay_required(upc) == validate_upc_stockx(upc)

validate_upc_ebay(upc) ==
  IF ~IsBlank(upc) /\ ~UpcDigitsOk(upc)
    THEN <<ValidationError("upc", MsgUpcDigits, None, Some(upc))>>
  ELSE <<>>

\* validate_size_poshmark, validate_size_stockx
validate_size(platform, size) ==
  IF IsBlank(size)
    THEN <<ValidationError("size", MsgSize(platform), None, Some(size))>>
  ELSE <<>>

S_new == <<"n", "e", "w">>
S_used == <<"u", "s", "e", "d">>
S_deadstock == <<"d", "e", "a", "d", "s", "t", "o", "c", "k">>
S_like_new == <<"l", "i", "k", "e", " ", "n", "e", "w">>
S_good == <<"g", "o", "o", "d">>
S_fair == <<"f", "a", "i", "r">>
valid_conditions == {S_new, S_used, S_deadstock, S_like_new, S_good, S_fair}

validate_condition(condition) ==
  IF ToLowercase(condition) \notin valid_conditions
    THEN <<ValidationError("condition", MsgCondition, None, Some(condition))>>
  ELSE <<>>

validate_category(category) ==
  IF IsBlank(category)
    THEN <<ValidationError("category", MsgCategoryEmpty, None, Some(category))>>
  ELSE <<>>

validate_brand(brand) ==
  IF ~IsBlank(brand) /\ ByteLen(brand) > BrandLimit
    THEN <<ValidationError("brand", MsgBrand, None, Some(brand))>>
  ELSE <<>>

\* if let Some(brand_name) = brand { validate_brand(brand_name) }
validate_opt_brand(brand) == IF brand.some THEN validate_brand(brand.v) ELSE <<>>

\* variant: the price validated before the title
validate_common_price_first(platform, title, price, quantity, category, condition) ==
  validate_price(price) \o validate_title(platform, title) \o validate_quantity(quantity)
    \o validate_category(category) \o validate_condition(condition)

\* the five validators every rule set runs first
validate_common(platform, title, price, quantity, category, condition) ==
  validate_title(platform, title) \o validate_price(price) \o validate_quantity(quantity)
    \o validate_category(category) \o validate_condition(condition)

validate_item_ebay(title, price, quantity, category, condition, brand, upc) ==
  validate_common("ebay", title, price, quantity, category, condition)
    \o validate_opt_brand(brand)
    \o (IF upc.some THEN validate_upc_ebay(upc.v) ELSE <<>>)

validate_item_stockx(title, price, quantity, category, condition, brand, upc, size) ==
  validate_common("stockx", title, price, quantity, category, condition)
    \o validate_upc_stockx(upc) \o validate_size("stockx", size)
    \o validate_opt_brand(brand)

validate_item_poshmark(title, price, quantity, category, condition, brand, size) ==
  validate_common("poshmark", title, price, quantity, category, condition)
    \o validate_size("poshmark", size)
    \o validate_opt_brand(brand)

validate_item_mercari(title, price, quantity, category, condition, brand) ==
  validate_common("mercari", title, price, quantity, category, condition)
    \o validate_opt_brand(brand)

\* ValidationResult::is_valid
is_valid(errors) == errors = <<>>

(***************************************************************************)
(* Store adapter (db/schema.rs, db/queries.rs).  The items table is a      *)
(* sequence of rows; item_id is the position (AUTOINCREMENT, no deletes in *)
(* the pipeline).  A price column holds an f64; the NaN value stands for   *)
(* what the engine keeps when handed a NaN: NULL for a bound double, the   *)
(* text 'NaN' for a bound string.                                          *)
(***************************************************************************)
StatusSet == {"active", "sold", "draft"}

\* the NOT NULL and CHECK constraints of CREATE_ITEMS_TABLE_SQL on a row whose
\* price was bound as a double
InsertConstraintsOk(item) ==
  /\ CharLen(item.title) <= TitleLimit
  /\ item.price.k # "nan"
  /\ ~F64Negative(item.price)
  /\ item.quantity >= 0
  /\ item.status \in StatusSet

\* queries::insert_item: Ok(1) with the row appended, or Err
insert_item(items, item, now) ==
  IF InsertConstraintsOk(item)
    THEN [ok |-> TRUE, items |-> Append(items, [item EXCEPT !.last_updated = now])]
    ELSE [ok |-> FALSE, items |-> items]

NewItem(title, description, price, quantity, category, condition, brand, upc) ==
  [title |-> title, description |-> description, price |-> price, quantity |-> quantity,
   category |-> category, condition |-> condition, brand |-> brand, upc |-> upc,
   last_updated |-> 0, status |-> "active"]

(***************************************************************************)
(* Failure Ledger file: serde_json of ValidationResult { errors }          *)
(***************************************************************************)
JNull == [t |-> "null"]
JNum(n) == [t |-> "number", n |-> n]
JStr(x) == [t |-> "string", s |-> x]

\* Serialize for ValidationError: Option as null or the value
SerializeError(e) ==
  [field |-> JStr(e.field), message |-> JStr(e.message),
   row |-> IF e.row.some THEN JNum(e.row.v) ELSE JNull,
   value |-> IF e.value.some THEN JStr(e.value.v) ELSE JNull]
\* serde_json::to_string_pretty(&ValidationResult { errors })
to_json(errors) == [errors |-> [i \in 1..Len(errors) |-> SerializeError(errors[i])]]

\* variant: an empty string read as no value
DeserializeErrorEmptyAsNull(j) ==
  [field |-> j.field.s, message |-> j.message.s,
   row |-> IF j.row.t = "null" THEN None ELSE Some(j.row.n),
   value |-> IF j.value.t = "null" \/ j.value.s = <<>> THEN None ELSE Some(j.value.s)]

\* Deserialize for ValidationError
DeserializeError(j) ==
  [field |-> j.field.s, message |-> j.message.s,
   row |-> IF j.row.t = "null" THEN None ELSE Some(j.row.n),
   value |-> IF j.value.t = "null" THEN None ELSE Some(j.value.s)]
\* serde_json::from_reader::<ValidationResult>
from_json(doc) == [i \in 1..Len(doc.errors) |-> DeserializeError(doc.errors[i])]

\* failed_imports_path / the failed_update path: the name carries the clock's second
FailedPath(prefix, now) == [prefix |-> prefix, ts |-> now]
\* std::fs::write / File::create + to_writer_pretty: create or truncate, then write
WriteFile(fs, path, doc) == [p \in DOMAIN fs \cup {path} |-> IF p = path THEN doc ELSE fs[p]]

(***************************************************************************)
(* State                                                                   *)
(***************************************************************************)
VARIABLES
  store,            \* the items table
  clock,            \* Utc::now(), in seconds
  files,            \* ~/.inventory/failed: path -> JSON document
  stage,            \* the session: "fresh", then a "batch" run and a "retry" run, a "direct" call or a "validate" run
  result,           \* what the last command returned
  pc,               \* the running command and its position
  non_interactive,  \* the running command prompts nobody
  env,              \* the process environment of the running command
  headers,          \* header record of the input file
  nrows,            \* data rows of the input file
  row_idx,          \* data rows read so far
  record,           \* the row being processed (its cells, or a reader error)
  failed_rows,      \* the Failure Ledger of the running command
  imported,
  skipped,
  prompts,          \* prompts issued by the running command
  answer,           \* what was typed at the last prompt, trimmed
  draft,            \* the row's mutable values during its correction session
  errs,             \* the errors the session iterates over
  ei,               \* position of the session in errs
  todo,             \* retry: the entries loaded from the retry file
  pre,              \* store, ledger length and prompts when the row was read
  written,          \* path -> the ledger as it was in memory when written
  v_in,             \* validators: the record validated
  v_rules,          \* validators: the rule sets applied so far
  v_out,            \* validators: rule set -> Outcome
  cache,            \* QueryCache: key -> entry
  cache_hits,       \* PerformanceMonitor.cache_hits
  cache_misses,     \* PerformanceMonitor.cache_misses
  threads,          \* QueryCache: each thread's call in progress and its last return
  cache_ops         \* QueryCache: calls begun

vars == <<store, clock, files, stage, result, pc, non_interactive, env, headers, nrows, row_idx,
          record, failed_rows, imported, skipped, prompts, answer, draft, errs, ei, todo, pre,
          written, v_in, v_rules, v_out, cache, cache_hits, cache_misses, threads, cache_ops>>

session_vars == <<store, clock, files, stage, result, pc, non_interactive, env, headers, nrows,
                  row_idx, record, failed_rows, imported, skipped, prompts, answer, draft, errs, ei,
                  todo, pre, written>>
validator_vars == <<v_in, v_rules, v_out>>
cache_vars == <<cache, cache_hits, cache_misses, threads, cache_ops>>

(***************************************************************************)
(* Bounds                                                                  *)
(***************************************************************************)
MaxRows == 2
MaxClock == 1

(***************************************************************************)
(* Import (commands/import.rs)                                             *)
(***************************************************************************)
REQUIRED_FIELDS ==
  <<"item_id", "title", "description", "price", "quantity", "upc", "category", "condition",
    "brand">>

\* headers.iter().position(|h| h == field): the first position, 0 for None
Position(hdr, field) ==
  IF \E i \in 1..Len(hdr) : hdr[i] = field
    THEN CHOOSE i \in 1..Len(hdr) : hdr[i] = field /\ \A j \in 1..(i - 1) : hdr[j] # field
    ELSE 0

\* position(..).and_then(|pos| record.get(pos))
GetCell(rec, hdr, field) ==
  LET pos == Position(hdr, field)
  IN IF pos = 0 \/ pos > Len(rec) THEN None ELSE Some(rec[pos])

\* variant: the "upc" column is not asked for
validate_headers_without_upc(hdr) ==
  LET missing == {i \in 1..Len(REQUIRED_FIELDS) :
                    REQUIRED_FIELDS[i] # "upc" /\ Position(hdr, REQUIRED_FIELDS[i]) = 0}
  IN IF missing = {} THEN None
     ELSE Some(REQUIRED_FIELDS[CHOOSE i \in missing : \A j \in missing : i <= j])

\* validate_headers: the first required field the header lacks, None when complete
validate_headers(hdr) ==
  LET missing == {i \in 1..Len(REQUIRED_FIELDS) : Position(hdr, REQUIRED_FIELDS[i]) = 0}
  IN IF missing = {} THEN None
     ELSE Some(REQUIRED_FIELDS[CHOOSE i \in missing : \A j \in missing : i <= j])

OptNonEmpty(x) == IF x = <<>> THEN None ELSE Some(x)

\* process_row, lines 72-91: the row's fields and the parsed numbers
ExtractRow(rec, hdr) ==
  LET get_field(f) == UnwrapOr(GetCell(rec, hdr, f), <<>>)
  IN [title |-> get_field("title"), description |-> get_field("description"),
      price_str |-> get_field("price"), quantity_str |-> get_field("quantity"),
      upc |-> get_field("upc"), category |-> get_field("category"),
      condition |-> get_field("condition"), brand |-> get_field("brand"),
      price |-> UnwrapOr(ParseF64(get_field("price")), MinusOne),
      quantity |-> UnwrapOr(ParseI32(get_field("quantity")), -1)]

\* process_row, lines 94-102 and 161-169
ValidateDraft(d) ==
  validate_item_ebay(d.title, d.price, d.quantity, d.category, d.condition,
                     OptNonEmpty(d.brand), OptNonEmpty(d.upc))

\* process_row, lines 105-117
AddRowInfo(errors, d, idx) ==
  [i \in 1..Len(errors) |->
     [errors[i] EXCEPT
        !.row = Some(idx + 1),
        !.value = CASE errors[i].field = "title" -> Some(d.title)
                    [] errors[i].field = "price" -> Some(d.price_str)
                    [] errors[i].field = "quantity" -> Some(d.quantity_str)
                    [] errors[i].field = "category" -> Some(d.category)
                    [] errors[i].field = "condition" -> Some(d.condition)
                    [] errors[i].field = "brand" -> Some(d.brand)
                    [] errors[i].field = "upc" -> Some(d.upc)
                    [] OTHER -> None]]

\* variant: the 0-based index as the label
ImportRowNumberZeroBased(idx) == idx

\* the row label put on a ledger entry by handle_import
ImportRowNumber(idx) == idx + 1

\* handle_import, lines 258-271: the entries pushed for a row process_row
\* answered Ok(false) for
SkippedRowErrors(rec, hdr, idx) ==
  LET cell(f) == UnwrapOr(GetCell(rec, hdr, f), <<>>)
      validation ==
        validate_item_ebay(cell("title"),
                           UnwrapOr(ParseF64(cell("price")), MinusOne),
                           UnwrapOr(ParseI32(cell("quantity")), -1),
                           cell("category"), cell("condition"),
                           GetCell(rec, hdr, "brand"), GetCell(rec, hdr, "upc"))
  IN [i \in 1..Len(validation) |-> [validation[i] EXCEPT !.row = Some(ImportRowNumber(idx))]]

\* process_row, lines 178-198
DraftItem(d) ==
  NewItem(d.title, OptNonEmpty(d.description), d.price, d.quantity, d.category, d.condition,
          OptNonEmpty(d.brand), OptNonEmpty(d.upc))

\* process_row, lines 138-153: the reply stored into the field the error names
ApplyCorrection(d, field, new_value) ==
  CASE field = "title" -> [d EXCEPT !.title = new_value]
    [] field = "price" -> [d EXCEPT !.price = UnwrapOr(ParseF64(new_value), d.price)]
    [] field = "quantity" -> [d EXCEPT !.quantity = UnwrapOr(ParseI32(new_value), d.quantity)]
    [] field = "category" -> [d EXCEPT !.category = new_value]
    [] field = "condition" -> [d EXCEPT !.condition = new_value]
    [] field = "brand" -> [d EXCEPT !.brand = new_value]
    [] field = "upc" -> [d EXCEPT !.upc = new_value]
    [] OTHER -> d

(***************************************************************************)
(* Store adapter, continued: lookup and partial update (db/queries.rs)     *)
(***************************************************************************)
\* format!("{:.2}", price) of a finite price
Format2(x) ==
  LET a == IF x.c < 0 THEN -x.c ELSE x.c
      body == NatToString(a \div 100) \o <<".", DigitChar((a % 100) \div 10), DigitChar(a % 10)>>
  IN IF x.c < 0 THEN <<"-">> \o body ELSE body

\* what the price column of a row yields for row.get::<_, f64>: the engine holds a
\* real for a finite value and a text or NULL otherwise
PriceReadable(x) == x.k \in {"fin", "big"}

\* queries::get_item_by_id: Err, Ok(None) or Ok(Some(map of field -> text))
get_item_by_id(items, id) ==
  IF id \notin 1..Len(items) THEN [ok |-> TRUE, item |-> None]
  ELSE IF ~PriceReadable(items[id].price) THEN [ok |-> FALSE, item |-> None]
  ELSE [ok |-> TRUE,
        item |-> Some([item_id |-> IntToString(id),
                       title |-> items[id].title,
                       price |-> IF items[id].price.k = "fin" THEN Format2(items[id].price)
                                 ELSE items[id].price.txt \o <<".", "0", "0">>,
                       quantity |-> IntToString(items[id].quantity),
                       category |-> items[id].category,
                       condition |-> items[id].condition,
                       brand |-> UnwrapOr(items[id].brand, <<>>),
                       upc |-> UnwrapOr(items[id].upc, <<>>)])]

\* the CHECK constraints on a row whose price and quantity were bound as text:
\* text that is no number literal ("NaN", "inf") stays text and compares above 0
UpdateConstraintsOk(item) ==
  /\ CharLen(item.title) <= TitleLimit
  /\ (item.price.k \in {"fin", "big"} => ~F64Negative(item.price))
  /\ item.quantity >= 0

\* variant: the brand column written whether or not a brand is given
update_item_brand_overwritten(items, id, title, price, quantity, category, condition, brand, upc, now) ==
  IF id \notin 1..Len(items) THEN [ok |-> FALSE, items |-> items]
  ELSE LET old == items[id]
           new == [old EXCEPT
                     !.title = UnwrapOr(title, old.title),
                     !.price = UnwrapOr(price, old.price),
                     !.quantity = UnwrapOr(quantity, old.quantity),
                     !.category = UnwrapOr(category, old.category),
                     !.condition = UnwrapOr(condition, old.condition),
                     !.brand = brand,
                     !.upc = IF upc.some THEN upc ELSE old.upc,
                     !.last_updated = now]
       IN IF UpdateConstraintsOk(new)
            THEN [ok |-> TRUE, items |-> [items EXCEPT ![id] = new]]
            ELSE [ok |-> FALSE, items |-> items]

\* queries::update_item: Ok with the row changed, or Err with the table as it was
update_item(items, id, title, price, quantity, category, condition, brand, upc, now) ==
  IF id \notin 1..Len(items) THEN [ok |-> FALSE, items |-> items]
  ELSE LET old == items[id]
           new == [old EXCEPT
                     !.title = UnwrapOr(title, old.title),
                     !.price = UnwrapOr(price, old.price),
                     !.quantity = UnwrapOr(quantity, old.quantity),
                     !.category = UnwrapOr(category, old.category),
                     !.condition = UnwrapOr(condition, old.condition),
                     !.brand = IF brand.some THEN brand ELSE old.brand,
                     !.upc = IF upc.some THEN upc ELSE old.upc,
                     !.last_updated = now]
       IN IF UpdateConstraintsOk(new)
            THEN [ok |-> TRUE, items |-> [items EXCEPT ![id] = new]]
            ELSE [ok |-> FALSE, items |-> items]

(***************************************************************************)
(* Update (commands/update.rs): the Row Extractor                          *)
(***************************************************************************)
EmptyUpdateRow ==
  [id |-> 0, title |-> None, price |-> None, quantity |-> None, condition |-> None,
   category |-> None, brand |-> None, upc |-> None]

RECURSIVE FromRecordFrom(_, _, _, _)
\* UpdateRow::from_record, lines 389-406, from field i on
FromRecordFrom(rec, hdr, i, acc) ==
  IF i > Len(rec) THEN [ok |-> TRUE, error |-> "", row |-> acc]
  ELSE IF i > Len(hdr) THEN [ok |-> FALSE, error |-> "Missing header", row |-> acc]
  ELSE LET f == Trim(rec[i])
           h == hdr[i]
       IN IF f = <<>> THEN FromRecordFrom(rec, hdr, i + 1, acc)
          ELSE IF h = "id"
            THEN IF ParseI64(f).some
                   THEN FromRecordFrom(rec, hdr, i + 1, [acc EXCEPT !.id = ParseI64(f).v])
                   ELSE [ok |-> FALSE, error |-> "Invalid ID", row |-> acc]
          ELSE IF h = "price"
            THEN IF ParseF64(f).some
                   THEN FromRecordFrom(rec, hdr, i + 1, [acc EXCEPT !.price = ParseF64(f)])
                   ELSE [ok |-> FALSE, error |-> "Invalid price", row |-> acc]
          ELSE IF h = "quantity"
            THEN IF ParseI32(f).some
                   THEN FromRecordFrom(rec, hdr, i + 1, [acc EXCEPT !.quantity = ParseI32(f)])
                   ELSE [ok |-> FALSE, error |-> "Invalid quantity", row |-> acc]
          ELSE IF h = "title" THEN FromRecordFrom(rec, hdr, i + 1, [acc EXCEPT !.title = Some(f)])
          ELSE IF h = "condition"
            THEN FromRecordFrom(rec, hdr, i + 1, [acc EXCEPT !.condition = Some(f)])
          ELSE IF h = "category"
            THEN FromRecordFrom(rec, hdr, i + 1, [acc EXCEPT !.category = Some(f)])
          ELSE IF h = "brand" THEN FromRecordFrom(rec, hdr, i + 1, [acc EXCEPT !.brand = Some(f)])
          ELSE IF h = "upc" THEN FromRecordFrom(rec, hdr, i + 1, [acc EXCEPT !.upc = Some(f)])
          ELSE FromRecordFrom(rec, hdr, i + 1, acc)

\* variant: a row without an id is passed on with id 0 instead of being refused
from_record_id_optional(rec, hdr) == FromRecordFrom(rec, hdr, 1, EmptyUpdateRow)

\* UpdateRow::from_record
from_record(rec, hdr) ==
  LET r == FromRecordFrom(rec, hdr, 1, EmptyUpdateRow)
  IN IF ~r.ok THEN r
     ELSE IF r.row.id = 0 THEN [ok |-> FALSE, error |-> "Missing ID", row |-> r.row]
     ELSE r

\* UpdateRow::is_field_provided
is_field_provided(row, field) ==
  CASE field = "id" -> TRUE
    [] field = "title" -> row.title.some
    [] field = "price" -> row.price.some
    [] field = "quantity" -> row.quantity.some
    [] field = "condition" -> row.condition.some
    [] field = "category" -> row.category.some
    [] field = "brand" -> row.brand.some
    [] field = "upc" -> row.upc.some
    [] OTHER -> FALSE

\* update_from_csv, lines 68-81: the row's values over the stored ones
ForValidation(row, existing) ==
  [title |-> UnwrapOr(row.title, existing.title),
   price |-> UnwrapOr(row.price, UnwrapOr(ParseF64(existing.price), Fin(0))),
   quantity |-> UnwrapOr(row.quantity, UnwrapOr(ParseI32(existing.quantity), 0)),
   category |-> UnwrapOr(row.category, existing.category),
   condition |-> UnwrapOr(row.condition, existing.condition),
   brand |-> IF row.brand.some THEN row.brand ELSE OptNonEmpty(existing.brand),
   upc |-> IF row.upc.some THEN row.upc ELSE OptNonEmpty(existing.upc)]

\* update_from_csv, lines 84-92
ValidateMerged(fv) ==
  validate_item_ebay(fv.title, fv.price, fv.quantity, fv.category, fv.condition, fv.brand,
                     fv.upc)

\* update_from_csv, lines 162-170: the corrected values over the merged ones
Revalidate(corrected, fv) ==
  validate_item_ebay(UnwrapOr(corrected.title, fv.title),
                     UnwrapOr(corrected.price, fv.price),
                     UnwrapOr(corrected.quantity, fv.quantity),
                     UnwrapOr(corrected.category, fv.category),
                     UnwrapOr(corrected.condition, fv.condition),
                     IF corrected.brand.some THEN corrected.brand ELSE fv.brand,
                     IF corrected.upc.some THEN corrected.upc ELSE fv.upc)

\* row_num of update_from_csv for the row read after idx others: the header is row 1
\* variant: update rows numbered as import numbers them, the header not counted
UpdateRowNumberDataRows(idx) == idx + 1
UpdateRowNumber(idx) == idx + 2

\* variant: every error of the row kept, whichever field it names
AllErrors(errors, row) == errors

\* update_from_csv, lines 153-157: the errors of fields the row provided
ProvidedErrors(errors, row) ==
  SelectSeq(errors, LAMBDA e : is_field_provided(row, e.field))

(***************************************************************************)
(* Input files of the model                                                *)
(***************************************************************************)
T_shoe == <<"S", "h", "o", "e">>
T_nike == <<"N", "i", "k", "e">>
T_abc == <<"a", "b", "c">>
T_upc12 == <<"1", "2", "3", "4", "5", "6", "7", "8", "9", "0", "1", "2">>

ImportHeaderSet ==
  { REQUIRED_FIELDS,
    <<"brand", "title", "notes", "price", "quantity", "upc", "category", "condition",
      "description", "item_id">>,
    <<"item_id", "title", "description", "price", "quantity", "category", "condition",
      "brand">>,
    <<"item_id", "title", "quantity", "upc">> }

BaseCells ==
  [item_id |-> <<"1">>, title |-> T_shoe, description |-> <<"d">>,
   price |-> <<"2", "9", ".", "9", "9">>, quantity |-> <<"5">>, upc |-> T_upc12,
   category |-> <<"c">>, condition |-> S_new, brand |-> T_nike]

\* a data row: its cells by column, and how many trailing cells the line lacks
Row(cells, cut) == [cells |-> cells, cut |-> cut]

ValidImportRows ==
  { Row(BaseCells, 0),
    Row([BaseCells EXCEPT !.brand = <<>>, !.upc = <<>>, !.description = <<>>,
                          !.condition = <<"U", "s", "e", "d">>, !.price = <<"1", "0">>], 0),
    Row([BaseCells EXCEPT !.title = Rep("a", TitleLimit)], 1) }

InvalidImportRows ==
  { Row([BaseCells EXCEPT !.title = <<>>, !.price = <<"1", "0">>, !.quantity = <<"1">>,
                          !.category = <<"x">>], 0),
    Row([BaseCells EXCEPT !.price = T_abc], 0),
    Row([BaseCells EXCEPT !.quantity = <<>>], 0),
    Row([BaseCells EXCEPT !.title = Rep(" ", TitleLimit + 1)], 0),
    Row([BaseCells EXCEPT !.condition = T_abc, !.upc = <<"1", "2">>], 0),
    Row([BaseCells EXCEPT !.title = Rep("U+00E9", TitleLimit)], 0),
    Row(BaseCells, 2) }

NaNImportRows == { Row([BaseCells EXCEPT !.price = <<"N", "a", "N">>], 0) }

ImportRowSet == ValidImportRows \cup InvalidImportRows \cup NaNImportRows

\* the record the reader yields for a row under a header
Layout(hdr, row) ==
  [i \in 1..(Len(hdr) - row.cut) |->
     IF hdr[i] \in DOMAIN row.cells THEN row.cells[hdr[i]] ELSE <<"n", "/", "a">>]

ReaderOk(cells) == [ok |-> TRUE, cells |-> cells]
\* a record the csv reader rejects
ReaderErr == [ok |-> FALSE, cells |-> <<>>]

\* what a user may type at a prompt
ReplySet == { <<" ">>, <<"O", "k">>, <<"1", "0">>, S_new }

T_boot == <<"B", "o", "o", "t">>
T_upc13 == <<"0", "1", "2", "3", "4", "5", "6", "7", "8", "9", "0", "1", "2">>

UpdateHeaderSet ==
  { <<"id", "title", "price">>,
    <<"id", "price", "quantity", "condition", "notes">>,
    <<"id", "title", "price", "quantity", "category", "condition", "brand", "upc">>,
    <<"title", "price">> }

BlankCells ==
  [id |-> <<"1">>, title |-> <<>>, price |-> <<>>, quantity |-> <<>>, category |-> <<>>,
   condition |-> <<>>, brand |-> <<>>, upc |-> <<>>]

UpdateRowSet ==
  { Row([BlankCells EXCEPT !.price = <<"2", "0", ".", "0">>], 0),
    Row([BlankCells EXCEPT !.title = T_boot, !.price = <<"1", "5", ".", "5">>,
                           !.quantity = <<"7">>, !.category = <<"k">>,
                           !.condition = <<"U", "s", "e", "d">>, !.brand = <<"P", "u", "m", "a">>,
                           !.upc = T_upc13], 0),
    Row([BlankCells EXCEPT !.id = <<"2">>, !.title = <<" ", "B", "o", "o", "t", " ">>], 0),
    Row([BlankCells EXCEPT !.title = Rep("a", TitleLimit + 1)], 0),
    Row([BlankCells EXCEPT !.price = <<" ", "-", "1", ".", "0">>], 0),
    Row([BlankCells EXCEPT !.id = <<"9", "9", "9">>, !.title = T_boot], 0),
    Row([BlankCells EXCEPT !.id = <<"2">>, !.price = <<"-", "3">>, !.quantity = <<"-", "1">>], 0),
    Row([BlankCells EXCEPT !.price = T_abc], 0),
    Row([BlankCells EXCEPT !.price = <<"N", "a", "N">>], 0),
    Row([BlankCells EXCEPT !.id = <<>>, !.title = T_boot], 0),
    Row([BlankCells EXCEPT !.condition = T_abc, !.quantity = <<"7">>,
                           !.price = <<"1", "2">>], 0) }

\* rows the table may hold before an update batch (queries::insert_item takes any
\* row the table's constraints admit, whatever its condition)
Item1 ==
  NewItem(<<"I", "t", "e", "m">>, None, Fin(1000), 5, <<"s", "n", "k">>, S_new,
          Some(T_nike), Some(T_upc12))
Item2 ==
  NewItem(T_shoe, Some(<<"d">>), Fin(2550), 0, <<"c">>, <<"m", "i", "n", "t">>, None, None)
\* the tables an update batch may start on
StoreSet ==
  { insert_item(<<>>, Item1, 0).items,
    insert_item(insert_item(<<>>, Item1, 0).items, Item2, 0).items }

\* the environment of a command: INVENTORY_NONINTERACTIVE set or not, stdin and
\* stdout a terminal or not
EnvSet ==
  { [noninteractive |-> FALSE, terminal |-> TRUE],
    [noninteractive |-> TRUE, terminal |-> TRUE],
    [noninteractive |-> FALSE, terminal |-> FALSE] }
DefaultEnv == [noninteractive |-> FALSE, terminal |-> TRUE]
\* update_from_csv, lines 98-99: is_interactive
is_interactive(e) == e.terminal /\ ~e.noninteractive

NoDraft == [title |-> <<>>]
NoRecord == ReaderErr
Ok == [ok |-> TRUE, error |-> "", arg |-> ""]
Err(error, arg) == [ok |-> FALSE, error |-> error, arg |-> arg]
Snapshot == [store |-> store, failed |-> Len(failed_rows), prompts |-> prompts]

(***************************************************************************)
(* handle_import                                                           *)
(***************************************************************************)
\* variant: a skipped row takes the batch's earlier inserts back
ImportRowSkippedRollingBack(rec) ==
  /\ failed_rows' = failed_rows \o SkippedRowErrors(rec.cells, headers, row_idx)
  /\ skipped' = skipped + 1
  /\ store' = SubSeq(store, 1, Len(store) - imported)
  /\ UNCHANGED imported

\* variant: a row process_row answered Ok(false) for is recorded but not counted
ImportRowSkippedUncounted(rec) ==
  /\ failed_rows' = failed_rows \o SkippedRowErrors(rec.cells, headers, row_idx)
  /\ UNCHANGED <<imported, skipped, store>>

\* handle_import, lines 256-273: process_row answered Ok(false)
ImportRowSkipped(rec) ==
  /\ failed_rows' = failed_rows \o SkippedRowErrors(rec.cells, headers, row_idx)
  /\ skipped' = skipped + 1
  /\ UNCHANGED <<imported, store>>

\* process_row, lines 177-209, and handle_import's match on its answer
ImportRowInsert(rec, d) ==
  LET r == insert_item(store, DraftItem(d), clock)
  IN IF r.ok
       THEN /\ store' = r.items
            /\ imported' = imported + 1
            /\ UNCHANGED <<failed_rows, skipped>>
       ELSE ImportRowSkipped(rec)

\* handle_import, lines 212-234
ImportStartIn(Modes, Envs) ==
  /\ pc = "idle"
  /\ stage = "fresh"
  /\ stage' = "batch"
  /\ \E exists \in BOOLEAN, h \in ImportHeaderSet, n \in 0..MaxRows, ni \in Modes, e \in Envs :
       /\ headers' = h
       /\ nrows' = n
       /\ non_interactive' = ni
       /\ env' = e
       /\ IF ~exists
            THEN result' = Err("File not found", "") /\ pc' = "idle"
          ELSE IF validate_headers(h).some
            THEN result' = Err("Missing required field", validate_headers(h).v) /\ pc' = "idle"
          ELSE result' = Ok /\ pc' = "import"
  /\ failed_rows' = <<>>
  /\ imported' = 0
  /\ skipped' = 0
  /\ row_idx' = 0
  /\ prompts' = 0
  /\ answer' = <<>>
  /\ record' = NoRecord
  /\ draft' = NoDraft
  /\ errs' = <<>>
  /\ ei' = 0
  /\ pre' = [store |-> store, failed |-> 0, prompts |-> 0]
  /\ UNCHANGED <<store, clock, files, todo, written, validator_vars, cache_vars>>

\* handle_import called with either mode, in the environment as it is
ImportStart == ImportStartIn(BOOLEAN, {env})

\* handle_import, lines 237-252: the reader yields an error for the row
ImportBadRecord ==
  /\ pc = "import"
  /\ row_idx < nrows
  /\ record' = ReaderErr
  /\ pre' = Snapshot
  /\ failed_rows' = Append(failed_rows,
                           ValidationError("csv_parse", "CSV parse error", Some(row_idx + 1), None))
  /\ skipped' = skipped + 1
  /\ row_idx' = row_idx + 1
  /\ UNCHANGED <<store, clock, files, stage, result, pc, non_interactive, headers, nrows,
                 imported, prompts, answer, draft, errs, ei, todo, written, env, validator_vars, cache_vars>>

\* handle_import, line 254, and process_row up to its first prompt
ImportRow ==
  /\ pc = "import"
  /\ row_idx < nrows
  /\ \E row \in ImportRowSet :
       LET rec == ReaderOk(Layout(headers, row))
           d == ExtractRow(rec.cells, headers)
           validation == AddRowInfo(ValidateDraft(d), d, row_idx)
       IN /\ record' = rec
          /\ pre' = Snapshot
          /\ IF is_valid(validation)
               THEN /\ ImportRowInsert(rec, d)
                    /\ row_idx' = row_idx + 1
                    /\ UNCHANGED <<pc, draft, errs, ei>>
             ELSE IF non_interactive
               THEN /\ ImportRowSkipped(rec)
                    /\ row_idx' = row_idx + 1
                    /\ UNCHANGED <<pc, draft, errs, ei>>
             ELSE /\ pc' = "import_prompt"
                  /\ draft' = d
                  /\ errs' = validation
                  /\ ei' = 1
                  /\ UNCHANGED <<store, failed_rows, imported, skipped, row_idx>>
  /\ UNCHANGED <<clock, files, stage, result, non_interactive, headers, nrows, prompts, answer, todo,
                 written, env, validator_vars, cache_vars>>

\* prompt_for_correction and process_row, lines 134-175: one prompt and its reply
ImportPrompt ==
  /\ pc = "import_prompt"
  /\ prompts' = prompts + 1
  /\ \E reply \in ReplySet :
       LET input == Trim(reply)
           d == ApplyCorrection(draft, errs[ei].field, input)
       IN /\ answer' = input
          /\ IF input = <<>>
               THEN /\ ImportRowSkipped(record)
                    /\ row_idx' = row_idx + 1
                    /\ pc' = "import"
                    /\ UNCHANGED <<draft, ei>>
             ELSE IF ei < Len(errs)
               THEN /\ draft' = d
                    /\ ei' = ei + 1
                    /\ UNCHANGED <<store, failed_rows, imported, skipped, row_idx, pc>>
             ELSE /\ draft' = d
                  /\ IF is_valid(ValidateDraft(d))
                       THEN ImportRowInsert(record, d)
                       ELSE ImportRowSkipped(record)
                  /\ row_idx' = row_idx + 1
                  /\ pc' = "import"
                  /\ UNCHANGED ei
  /\ UNCHANGED <<clock, files, stage, result, non_interactive, headers, nrows, record, errs,
                 todo, pre, written, env, validator_vars, cache_vars>>

\* handle_import, lines 281-294
ImportEnd ==
  /\ pc = "import"
  /\ row_idx = nrows
  /\ IF failed_rows # <<>>
       THEN /\ files' = WriteFile(files, FailedPath("failed_import", clock), to_json(failed_rows))
            /\ written' = WriteFile(written, FailedPath("failed_import", clock), failed_rows)
       ELSE UNCHANGED <<files, written>>
  /\ result' = Ok
  /\ pc' = "idle"
  /\ UNCHANGED <<store, clock, stage, non_interactive, headers, nrows, row_idx, record,
                 failed_rows, imported, skipped, prompts, answer, draft, errs, ei, todo, pre,
                 env, validator_vars, cache_vars>>

(***************************************************************************)
(* update_from_csv                                                         *)
(***************************************************************************)
\* update_from_csv, lines 37-47
UpdateStartIn(Envs) ==
  /\ pc = "idle"
  /\ stage = "fresh"
  /\ stage' = "batch"
  /\ \E exists \in BOOLEAN, h \in UpdateHeaderSet, n \in 0..MaxRows, e \in Envs :
       /\ headers' = h
       /\ nrows' = n
       /\ non_interactive' = ~is_interactive(e)
       /\ env' = e
       /\ IF ~exists
            THEN result' = Err("File not found", "") /\ pc' = "idle"
            ELSE result' = Ok /\ pc' = "update"
  /\ failed_rows' = <<>>
  /\ imported' = 0
  /\ skipped' = 0
  /\ row_idx' = 0
  /\ prompts' = 0
  /\ answer' = <<>>
  /\ record' = NoRecord
  /\ draft' = NoDraft
  /\ errs' = <<>>
  /\ ei' = 0
  /\ pre' = [store |-> store, failed |-> 0, prompts |-> 0]
  /\ UNCHANGED <<store, clock, files, todo, written, validator_vars, cache_vars>>

UpdateStart == UpdateStartIn(EnvSet)

\* the `?` of lines 51, 52, 55 and 197: the batch returns the error at once
UpdateAbort(error, ledger) ==
  /\ result' = Err(error, "")
  /\ pc' = "idle"
  /\ failed_rows' = ledger
  /\ row_idx' = row_idx + 1
  /\ UNCHANGED store

\* variant: the row's failure returned as the batch's error
UpdateContinueAborting(ledger) ==
  /\ failed_rows' = ledger
  /\ row_idx' = row_idx + 1
  /\ pc' = "idle"
  /\ result' = Err("validation", "")
  /\ UNCHANGED store

\* `continue`: on to the next row
UpdateContinue(ledger) ==
  /\ failed_rows' = ledger
  /\ row_idx' = row_idx + 1
  /\ pc' = "update"
  /\ UNCHANGED <<store, result>>

\* update_from_csv, lines 186-197
UpdatePersist(corrected, ledger) ==
  LET r == update_item(store, corrected.id, corrected.title, corrected.price,
                       corrected.quantity, corrected.category, corrected.condition,
                       corrected.brand, corrected.upc, clock)
  IN IF r.ok
       THEN /\ store' = r.items
            /\ failed_rows' = ledger
            /\ row_idx' = row_idx + 1
            /\ pc' = "update"
            /\ UNCHANGED result
       ELSE UpdateAbort("update_item", ledger)

\* update_from_csv, lines 161-197: after the prompts of a row
UpdateFinishSession(row, corrected, ledger) ==
  LET existing == get_item_by_id(store, row.id).item.v
      re_validation == Revalidate(corrected, ForValidation(row, existing))
  IN IF re_validation # <<>>
       THEN UpdateContinue(ledger \o re_validation)
       ELSE UpdatePersist(corrected, ledger)

\* the next error from position `from` on whose field the row provided, 0 for none
NextProvided(errors, row, from) ==
  LET S == {i \in from..Len(errors) : is_field_provided(row, errors[i].field)}
  IN IF S = {} THEN 0 ELSE CHOOSE i \in S : \A j \in S : i <= j

\* update_from_csv, line 51: the reader yields an error for the row
UpdateBadRecord ==
  /\ pc = "update"
  /\ row_idx < nrows
  /\ record' = ReaderErr
  /\ pre' = Snapshot
  /\ UpdateAbort("csv", failed_rows)
  /\ UNCHANGED <<clock, files, stage, non_interactive, headers, nrows, imported, skipped,
                 prompts, answer, draft, errs, ei, todo, written, env, validator_vars, cache_vars>>

\* update_from_csv, lines 49-159 and 186-197: a row up to its first prompt
UpdateRowStep ==
  /\ pc = "update"
  /\ row_idx < nrows
  /\ \E row \in UpdateRowSet :
       LET rec == ReaderOk(Layout(headers, row))
           parsed == from_record(rec.cells, headers)
           row_data == parsed.row
           found == get_item_by_id(store, row_data.id)
           validation == ValidateMerged(ForValidation(row_data, found.item.v))
           first == NextProvided(validation, row_data, 1)
       IN /\ record' = rec
          /\ pre' = Snapshot
          /\ IF ~parsed.ok
               THEN UpdateAbort(parsed.error, failed_rows) /\ UNCHANGED <<draft, errs, ei>>
             ELSE IF ~found.ok
               THEN UpdateAbort("get_item_by_id", failed_rows) /\ UNCHANGED <<draft, errs, ei>>
             ELSE IF ~found.item.some
               THEN /\ UpdateContinue(Append(failed_rows,
                         ValidationError("id", "Item not found",
                                         Some(UpdateRowNumber(row_idx)),
                                         Some(IntToString(row_data.id)))))
                    /\ UNCHANGED <<draft, errs, ei>>
             ELSE IF validation = <<>>
               THEN UpdatePersist(row_data, failed_rows) /\ UNCHANGED <<draft, errs, ei>>
             ELSE IF non_interactive
               THEN /\ UpdateContinue(failed_rows \o ProvidedErrors(validation, row_data))
                    /\ UNCHANGED <<draft, errs, ei>>
             ELSE IF first = 0
               THEN /\ UpdateFinishSession(row_data, row_data, failed_rows)
                    /\ UNCHANGED <<draft, errs, ei>>
             ELSE /\ pc' = "update_prompt"
                  /\ draft' = [row |-> row_data, corrected |-> row_data]
                  /\ errs' = validation
                  /\ ei' = first
                  /\ UNCHANGED <<store, failed_rows, row_idx, result>>
  /\ UNCHANGED <<clock, files, stage, non_interactive, headers, nrows, imported, skipped,
                 prompts, answer, todo, written, env, validator_vars, cache_vars>>

\* update_from_csv, lines 114-149: what one reply does to the corrected row and
\* which entries it appends
UpdateCorrection(corrected, error, input, row_num) ==
  IF input = <<>> THEN [corrected |-> corrected, pushed |-> <<error>>]
  ELSE CASE error.field = "title" ->
              [corrected |-> [corrected EXCEPT !.title = Some(input)], pushed |-> <<>>]
         [] error.field = "price" ->
              IF ParseF64(input).some
                THEN [corrected |-> [corrected EXCEPT !.price = ParseF64(input)], pushed |-> <<>>]
                ELSE [corrected |-> corrected,
                      pushed |-> <<ValidationError("price", "Invalid price format",
                                                   Some(row_num), Some(input))>>]
         [] error.field = "quantity" ->
              IF ParseI32(input).some
                THEN [corrected |-> [corrected EXCEPT !.quantity = ParseI32(input)],
                      pushed |-> <<>>]
                ELSE [corrected |-> corrected,
                      pushed |-> <<ValidationError("quantity", "Invalid quantity format",
                                                   Some(row_num), Some(input))>>]
         [] error.field = "condition" ->
              [corrected |-> [corrected EXCEPT !.condition = Some(input)], pushed |-> <<>>]
         [] error.field = "category" ->
              [corrected |-> [corrected EXCEPT !.category = Some(input)], pushed |-> <<>>]
         [] error.field = "brand" ->
              [corrected |-> [corrected EXCEPT !.brand = Some(input)], pushed |-> <<>>]
         [] error.field = "upc" ->
              [corrected |-> [corrected EXCEPT !.upc = Some(input)], pushed |-> <<>>]
         [] OTHER -> [corrected |-> corrected, pushed |-> <<>>]

\* update_from_csv, lines 103-150: one prompt and its reply, and the rest of the
\* row when it was the last prompt
UpdatePrompt ==
  /\ pc = "update_prompt"
  /\ prompts' = prompts + 1
  /\ \E reply \in ReplySet :
       LET step == UpdateCorrection(draft.corrected, errs[ei], Trim(reply),
                                    UpdateRowNumber(row_idx))
           next == NextProvided(errs, step.corrected, ei + 1)
       IN /\ draft' = [draft EXCEPT !.corrected = step.corrected]
          /\ answer' = Trim(reply)
          /\ IF next # 0
               THEN /\ ei' = next
                    /\ failed_rows' = failed_rows \o step.pushed
                    /\ UNCHANGED <<store, row_idx, pc, result>>
               ELSE /\ UpdateFinishSession(draft.row, step.corrected,
                                           failed_rows \o step.pushed)
                    /\ UNCHANGED ei
  /\ UNCHANGED <<clock, files, stage, non_interactive, headers, nrows, record, imported,
                 skipped, errs, todo, pre, written, env, validator_vars, cache_vars>>

\* update_from_csv, lines 200-214
UpdateEnd ==
  /\ pc = "update"
  /\ row_idx = nrows
  /\ IF failed_rows # <<>>
       THEN /\ files' = WriteFile(files, FailedPath("failed_update", clock), to_json(failed_rows))
            /\ written' = WriteFile(written, FailedPath("failed_update", clock), failed_rows)
       ELSE UNCHANGED <<files, written>>
  /\ result' = Ok
  /\ pc' = "idle"
  /\ UNCHANGED <<store, clock, stage, non_interactive, headers, nrows, row_idx, record,
                 failed_rows, imported, skipped, prompts, answer, draft, errs, ei, todo, pre,
                 env, validator_vars, cache_vars>>

(***************************************************************************)
(* update_from_retry                                                       *)
(***************************************************************************)
\* update_from_retry, lines 223-233: the row the entry is retried on
RetryRow(error) ==
  [EmptyUpdateRow EXCEPT
     !.id = UnwrapOr(ParseI64(UnwrapOr(error.value, <<"0">>)), 0)]
RetryRowNumber(error) == UnwrapOr(error.row, 0)

\* update_from_retry, lines 252-298: the reply stored into the row; `done` when the
\* entry is finished with (`continue`), with the entries appended
RetryCorrection(row, error, input) ==
  LET keep(r) == [row |-> r, done |-> FALSE, pushed |-> <<>>]
      format(f, m) ==
        [row |-> row, done |-> TRUE,
         pushed |-> <<ValidationError(f, m, Some(RetryRowNumber(error)), Some(input))>>]
  IN CASE error.field = "id" ->
            IF ParseI64(input).some THEN keep([row EXCEPT !.id = ParseI64(input).v])
            ELSE format("id", "Invalid ID format")
       [] error.field = "title" -> keep([row EXCEPT !.title = Some(input)])
       [] error.field = "price" ->
            IF ParseF64(input).some THEN keep([row EXCEPT !.price = ParseF64(input)])
            ELSE format("price", "Invalid price format")
       [] error.field = "quantity" ->
            IF ParseI32(input).some THEN keep([row EXCEPT !.quantity = ParseI32(input)])
            ELSE format("quantity", "Invalid quantity format")
       [] error.field = "condition" -> keep([row EXCEPT !.condition = Some(input)])
       [] error.field = "category" -> keep([row EXCEPT !.category = Some(input)])
       [] error.field = "brand" -> keep([row EXCEPT !.brand = Some(input)])
       [] error.field = "upc" -> keep([row EXCEPT !.upc = Some(input)])
       [] OTHER -> [row |-> row, done |-> TRUE, pushed |-> <<>>]

\* update_from_retry, lines 317-325: the corrected field over fixed defaults
ValidateRetry(row) ==
  validate_item_ebay(UnwrapOr(row.title, <<>>), UnwrapOr(row.price, F64Max),
                     UnwrapOr(row.quantity, I32Max), UnwrapOr(row.category, <<>>),
                     UnwrapOr(row.condition, <<>>), row.brand, row.upc)

\* update_from_retry, lines 217-220: open and parse the retry file
RetryStartIn(Envs) ==
  /\ pc = "idle"
  /\ stage # "retry"
  /\ stage' = "retry"
  /\ \E e \in Envs :
       /\ non_interactive' = ~is_interactive(e)
       /\ env' = e
       /\ \/ /\ result' = Err("File not found", "")
             /\ pc' = "idle"
             /\ todo' = <<>>
             /\ record' = NoRecord
          \/ \E path \in DOMAIN files :
               /\ result' = Ok
               /\ pc' = "retry"
               /\ todo' = from_json(files[path])
               /\ record' = [ok |-> TRUE, cells |-> <<>>, path |-> path]
  /\ nrows' = Len(todo')
  /\ headers' = <<>>
  /\ failed_rows' = <<>>
  /\ imported' = 0
  /\ skipped' = 0
  /\ row_idx' = 0
  /\ prompts' = 0
  /\ answer' = <<>>
  /\ draft' = NoDraft
  /\ errs' = <<>>
  /\ ei' = 0
  /\ pre' = [store |-> store, failed |-> 0, prompts |-> 0]
  /\ UNCHANGED <<store, clock, files, written, validator_vars, cache_vars>>

RetryStart == RetryStartIn(EnvSet)

\* variant: an entry nobody can be asked about is dropped instead of kept
RetryEntryDropping ==
  /\ pc = "retry"
  /\ row_idx < Len(todo)
  /\ pre' = Snapshot
  /\ IF non_interactive
       THEN /\ row_idx' = row_idx + 1
            /\ UNCHANGED <<pc, draft, failed_rows>>
       ELSE /\ pc' = "retry_prompt"
            /\ draft' = [row |-> RetryRow(todo[row_idx + 1]), corrected |-> RetryRow(todo[row_idx + 1])]
            /\ UNCHANGED <<failed_rows, row_idx>>
  /\ UNCHANGED <<store, clock, files, stage, result, non_interactive, headers, nrows, record,
                 imported, skipped, prompts, answer, errs, ei, todo, written, env, validator_vars, cache_vars>>

\* update_from_retry, lines 222-239 and 299-303: the next entry, up to its prompt
RetryEntry ==
  /\ pc = "retry"
  /\ row_idx < Len(todo)
  /\ pre' = Snapshot
  /\ IF non_interactive
       THEN /\ failed_rows' = Append(failed_rows, todo[row_idx + 1])
            /\ row_idx' = row_idx + 1
            /\ UNCHANGED <<pc, draft>>
       ELSE /\ pc' = "retry_prompt"
            /\ draft' = [row |-> RetryRow(todo[row_idx + 1]), corrected |-> RetryRow(todo[row_idx + 1])]
            /\ UNCHANGED <<failed_rows, row_idx>>
  /\ UNCHANGED <<store, clock, files, stage, result, non_interactive, headers, nrows, record,
                 imported, skipped, prompts, answer, errs, ei, todo, written, env, validator_vars, cache_vars>>

\* update_from_retry, lines 240-346: the prompt of an entry, its reply and the rest
\* of the entry
RetryPrompt ==
  /\ pc = "retry_prompt"
  /\ prompts' = prompts + 1
  /\ \E reply \in ReplySet :
       LET error == todo[row_idx + 1]
           input == Trim(reply)
           step == RetryCorrection(draft.row, error, input)
           found == get_item_by_id(store, step.row.id)
           validation == ValidateRetry(step.row)
           updated == update_item(store, step.row.id, step.row.title, step.row.price,
                                  step.row.quantity, step.row.category, step.row.condition,
                                  step.row.brand, step.row.upc, clock)
           next(ledger, items) ==
             /\ failed_rows' = ledger
             /\ store' = items
             /\ pc' = "retry"
             /\ UNCHANGED result
           abort(error_name) ==
             /\ result' = Err(error_name, "")
             /\ pc' = "idle"
             /\ UNCHANGED <<failed_rows, store>>
       IN /\ draft' = [draft EXCEPT !.corrected = step.row]
          /\ answer' = input
          /\ IF input = <<>> THEN next(Append(failed_rows, error), store)
             ELSE IF step.done THEN next(failed_rows \o step.pushed, store)
             ELSE IF ~found.ok THEN abort("get_item_by_id")
             ELSE IF ~found.item.some
               THEN next(Append(failed_rows,
                                ValidationError("id", "Item not found",
                                                Some(RetryRowNumber(error)),
                                                Some(IntToString(step.row.id)))), store)
             ELSE IF validation # <<>> THEN next(failed_rows \o validation, store)
             ELSE IF ~updated.ok THEN abort("update_item")
             ELSE next(failed_rows, updated.items)
  /\ row_idx' = row_idx + 1
  /\ UNCHANGED <<clock, files, stage, non_interactive, headers, nrows, record, imported,
                 skipped, errs, ei, todo, pre, written, env, validator_vars, cache_vars>>

\* update_from_retry, lines 349-363
RetryEnd ==
  /\ pc = "retry"
  /\ row_idx = Len(todo)
  /\ IF failed_rows # <<>>
       THEN /\ files' = WriteFile(files, FailedPath("failed_update", clock), to_json(failed_rows))
            /\ written' = WriteFile(written, FailedPath("failed_update", clock), failed_rows)
       ELSE UNCHANGED <<files, written>>
  /\ result' = Ok
  /\ pc' = "idle"
  /\ UNCHANGED <<store, clock, stage, non_interactive, headers, nrows, row_idx, record,
                 failed_rows, imported, skipped, prompts, answer, draft, errs, ei, todo, pre,
                 env, validator_vars, cache_vars>>

\* a second passes between the batch and the retry
TickBetween ==
  /\ pc = "idle"
  /\ stage = "batch"
  /\ clock < MaxClock
  /\ clock' = clock + 1
  /\ UNCHANGED <<store, files, stage, result, pc, non_interactive, headers, nrows, row_idx,
                 record, failed_rows, imported, skipped, prompts, answer, draft, errs, ei, todo, pre,
                 written, env, validator_vars, cache_vars>>

\* a second of wall-clock time passes
Tick ==
  /\ pc = "idle"
  /\ stage = "fresh"
  /\ clock < MaxClock
  /\ clock' = clock + 1
  /\ UNCHANGED <<store, files, stage, result, pc, non_interactive, headers, nrows, row_idx,
                 record, failed_rows, imported, skipped, prompts, answer, draft, errs, ei, todo, pre,
                 written, env, validator_vars, cache_vars>>

\* the validators, called directly on one record
Platforms == {"ebay", "stockx", "poshmark", "mercari"}
T_sneakers == <<"s", "n", "e", "a", "k", "e", "r", "s">>
ValTitleSet ==
  { <<>>, <<" ", " ">>, T_shoe, Rep("a", TitleLimit), Rep("a", TitleLimit + 1),
    Rep("U+00E9", TitleLimit), Rep(" ", TitleLimit + 1) }
ValPriceSet == { Fin(1099), Fin(-100), NaN, Fin(PriceMaxCents + 1) }
ValQuantitySet == { 5, -1, QuantityMax + 1 }
ValCategorySet == { T_sneakers, <<>> }
ValConditionSet == { S_new, <<"N", "e", "w">>, T_abc }
ValBrandSet == { None, Some(T_nike), Some(Rep("b", BrandLimit + 1)) }
T_upc_dashed == <<"0", "-", "1", "2", "3", "4", "5", "-", "6", "7", "8", "9", "0", "-", "5">>
ValUpcSet ==
  { None, Some(<<>>), Some(<<" ">>), Some(T_upc12), Some(T_upc13), Some(T_upc_dashed),
    Some(<<"1", "2">>), Some(Tail(T_upc12)), Some(T_upc13 \o <<"4">>) }
ValSizeSet == { <<>>, <<"M">> }
ValInputSet ==
  [title : ValTitleSet, price : ValPriceSet, quantity : ValQuantitySet,
   category : ValCategorySet, condition : ValConditionSet, brand : ValBrandSet,
   upc : ValUpcSet, size : ValSizeSet]
NoInput ==
  [title |-> <<>>, price |-> Fin(0), quantity |-> 0, category |-> <<>>, condition |-> <<>>,
   brand |-> None, upc |-> None, size |-> <<>>]
NoCall == [fn |-> "none", platform |-> "none"]

\* validate_title_ebay, _stockx, _poshmark, _mercari called on the title
ValidateTitle ==
  /\ v_rules = NoCall
  /\ \E p \in Platforms :
       /\ v_rules' = [fn |-> "title", platform |-> p]
       /\ v_out' = validate_title(p, v_in.title)
  /\ UNCHANGED <<v_in, session_vars, cache_vars>>

\* validate_item_ebay, _stockx, _poshmark, _mercari called on the record
ValidateItem ==
  /\ v_rules = NoCall
  /\ \E p \in Platforms :
       /\ p = "stockx" => v_in.upc.some
       /\ v_rules' = [fn |-> "item", platform |-> p]
       /\ v_out' =
            CASE p = "ebay" ->
                   validate_item_ebay(v_in.title, v_in.price, v_in.quantity, v_in.category,
                                      v_in.condition, v_in.brand, v_in.upc)
              [] p = "stockx" ->
                   validate_item_stockx(v_in.title, v_in.price, v_in.quantity, v_in.category,
                                        v_in.condition, v_in.brand, v_in.upc.v, v_in.size)
              [] p = "poshmark" ->
                   validate_item_poshmark(v_in.title, v_in.price, v_in.quantity,
                                          v_in.category, v_in.condition, v_in.brand, v_in.size)
              [] p = "mercari" ->
                   validate_item_mercari(v_in.title, v_in.price, v_in.quantity, v_in.category,
                                         v_in.condition, v_in.brand)
  /\ UNCHANGED <<v_in, session_vars, cache_vars>>

(***************************************************************************)
(* QueryCache (config/optimization.rs)                                     *)
(***************************************************************************)
Threads == {1, 2}
CacheKeys == {"a", "b"}
CacheData == {"x", "y"}
TtlSet == {1, 2}
\* calls of the cache the threads begin, all together
MaxCacheOps == 4

\* struct CacheEntry
CacheEntry(data, timestamp, ttl) == [data |-> data, timestamp |-> timestamp, ttl |-> ttl]
NoEntry == [data |-> "", timestamp |-> 0, ttl |-> 0]
\* QueryCache::get, line 111: Utc::now() < entry.timestamp + entry.ttl
Unexpired(entry, now) == now < entry.timestamp + entry.ttl

\* a thread between calls: the call it made last, its key and what it returned
ThreadIdle(op, key, ret) == [at |-> "idle", op |-> op, key |-> key, entry |-> NoEntry, ret |-> ret]
\* QueryCache::new
CacheIdle ==
  /\ cache = [k \in CacheKeys |-> None]
  /\ cache_hits = 0
  /\ cache_misses = 0
  /\ threads = [t \in Threads |-> ThreadIdle("none", "", None)]
  /\ cache_ops = 0

\* QueryCache::get, lines 109-117: the lookup under the first lock; a hit returns
\* under the lock, an expired entry has the lock dropped, a missing key goes to the
\* miss of lines 123-124
CacheGet(t) ==
  /\ threads[t].at = "idle"
  /\ cache_ops < MaxCacheOps
  /\ cache_ops' = cache_ops + 1
  /\ \E key \in CacheKeys :
       IF cache[key].some /\ Unexpired(cache[key].v, clock)
         THEN /\ cache_hits' = cache_hits + 1
              /\ threads' = [threads EXCEPT ![t] = ThreadIdle("get", key, Some(cache[key].v.data))]
              /\ UNCHANGED <<cache, cache_misses>>
       ELSE IF cache[key].some
         THEN /\ threads' = [threads EXCEPT ![t] = [at |-> "get_expired", op |-> "get",
                                                   key |-> key, entry |-> NoEntry,
                                                   ret |-> None]]
              /\ UNCHANGED <<cache, cache_hits, cache_misses>>
       ELSE /\ cache_misses' = cache_misses + 1
            /\ threads' = [threads EXCEPT ![t] = ThreadIdle("get", key, None)]
            /\ UNCHANGED <<cache, cache_hits>>
  /\ UNCHANGED <<session_vars, validator_vars>>

\* QueryCache::get, lines 118-124: the second lock, cache.remove(key), the miss
CacheGetRemove(t) ==
  /\ threads[t].at = "get_expired"
  /\ cache' = [cache EXCEPT ![threads[t].key] = None]
  /\ cache_misses' = cache_misses + 1
  /\ threads' = [threads EXCEPT ![t] = ThreadIdle("get", threads[t].key, None)]
  /\ UNCHANGED <<cache_hits, cache_ops, session_vars, validator_vars>>

\* QueryCache::set, lines 127-132: the entry is built, with Utc::now(), before the lock
CacheSetStamp(t) ==
  /\ threads[t].at = "idle"
  /\ cache_ops < MaxCacheOps
  /\ cache_ops' = cache_ops + 1
  /\ \E key \in CacheKeys, data \in CacheData, ttl \in TtlSet :
       threads' = [threads EXCEPT ![t] = [at |-> "set_stamped", op |-> "set", key |-> key,
                                          entry |-> CacheEntry(data, clock, ttl),
                                          ret |-> None]]
  /\ UNCHANGED <<cache, cache_hits, cache_misses, session_vars, validator_vars>>

\* QueryCache::set, lines 134-136: cache.insert under the lock
CacheSetInsert(t) ==
  /\ threads[t].at = "set_stamped"
  /\ cache' = [cache EXCEPT ![threads[t].key] = Some(threads[t].entry)]
  /\ threads' = [threads EXCEPT ![t] = ThreadIdle("set", threads[t].key, None)]
  /\ UNCHANGED <<cache_hits, cache_misses, cache_ops, session_vars, validator_vars>>

\* QueryCache::clear
CacheClear(t) ==
  /\ threads[t].at = "idle"
  /\ cache_ops < MaxCacheOps
  /\ cache_ops' = cache_ops + 1
  /\ cache' = [k \in CacheKeys |-> None]
  /\ threads' = [threads EXCEPT ![t] = ThreadIdle("clear", "", None)]
  /\ UNCHANGED <<cache_hits, cache_misses, session_vars, validator_vars>>

SessionInitWith(items, fs) ==
  /\ store = items
  /\ clock = 0
  /\ files = fs
  /\ stage = "fresh"
  /\ result = Ok
  /\ pc = "idle"
  /\ non_interactive = TRUE
  /\ env = DefaultEnv
  /\ headers = <<>>
  /\ nrows = 0
  /\ row_idx = 0
  /\ record = NoRecord
  /\ failed_rows = <<>>
  /\ imported = 0
  /\ skipped = 0
  /\ prompts = 0
  /\ answer = <<>>
  /\ draft = NoDraft
  /\ errs = <<>>
  /\ ei = 0
  /\ todo = <<>>
  /\ pre = [store |-> items, failed |-> 0, prompts |-> 0]
  /\ written = <<>>
  /\ CacheIdle

SessionInit(items) == SessionInitWith(items, <<>>)

ValidatorIdle ==
  /\ v_in = NoInput
  /\ v_rules = NoCall
  /\ v_out = <<>>

Init == SessionInit(<<>>) /\ ValidatorIdle

\* an import batch on a fresh store
Next ==
  \/ ImportStart
  \/ ImportBadRecord
  \/ ImportRow
  \/ ImportPrompt
  \/ ImportEnd
  \/ Tick

Spec == Init /\ [][Next]_vars

\* a CSV update batch on a store that holds rows already
NextUpdate ==
  \/ UpdateStart
  \/ UpdateBadRecord
  \/ UpdateRowStep
  \/ UpdatePrompt
  \/ UpdateEnd
  \/ Tick

\* a batch that prompts nobody (import or CSV update), then the retry loader
ScriptedImportStart == ImportStartIn({TRUE}, {env})
ScriptedUpdateStart == UpdateStartIn({e \in EnvSet : ~is_interactive(e)})
NextRetry ==
  \/ ScriptedImportStart
  \/ ImportBadRecord
  \/ ImportRow
  \/ ImportEnd
  \/ ScriptedUpdateStart
  \/ UpdateBadRecord
  \/ UpdateRowStep
  \/ UpdateEnd
  \/ RetryStart
  \/ RetryEntry
  \/ RetryPrompt
  \/ RetryEnd
  \/ Tick
  \/ TickBetween

InitUpdate == (\E items \in StoreSet : SessionInit(items)) /\ ValidatorIdle

SpecUpdate == InitUpdate /\ [][NextUpdate]_vars

SpecRetry == InitUpdate /\ [][NextRetry]_vars

\* an import batch or a CSV update batch, on a store that holds rows already
NextBatch ==
  \/ ImportStart
  \/ ImportBadRecord
  \/ ImportRow
  \/ ImportPrompt
  \/ ImportEnd
  \/ UpdateStart
  \/ UpdateBadRecord
  \/ UpdateRowStep
  \/ UpdatePrompt
  \/ UpdateEnd
  \/ Tick

InitBatch == SessionInit(<<Item1, Item2>>) /\ ValidatorIdle

SpecBatch == InitBatch /\ [][NextBatch]_vars

\* the invocations that are followed by another one: those of a file of at most
\* RerunRows rows that inserted nothing and ended before the clock's last second
RerunRows == 1
\* main: the command has returned and the process ended; the next invocation of the
\* program finds the table and the retry directory as this one left them
Rerun ==
  /\ pc = "idle"
  /\ stage = "batch"
  /\ nrows <= RerunRows
  /\ imported = 0
  /\ clock < MaxClock
  /\ stage' = "fresh"
  /\ result' = Ok
  /\ non_interactive' = TRUE
  /\ headers' = <<>>
  /\ nrows' = 0
  /\ row_idx' = 0
  /\ record' = NoRecord
  /\ failed_rows' = <<>>
  /\ imported' = 0
  /\ skipped' = 0
  /\ prompts' = 0
  /\ answer' = <<>>
  /\ pre' = [store |-> store, failed |-> 0, prompts |-> 0]
  /\ UNCHANGED <<store, clock, files, pc, draft, errs, ei, todo, written, env, validator_vars, cache_vars>>

\* import batches that prompt nobody, one invocation after the other
NextRepeat ==
  \/ ScriptedImportStart
  \/ ImportBadRecord
  \/ ImportRow
  \/ ImportEnd
  \/ Rerun
  \/ Tick

SpecRepeat == Init /\ [][NextRepeat]_vars

\* ids a caller of queries::update_item may pass: stored ones and one that is not
DirectIdSet == {1, 2, 999}
\* queries::update_item called on its own, as the tests call it
DirectUpdate ==
  /\ pc = "idle"
  /\ stage = "fresh"
  /\ stage' = "direct"
  /\ pre' = Snapshot
  /\ \E id \in DirectIdSet, price \in {None, Some(Fin(1550)), Some(Fin(-100))} :
       LET row == [EmptyUpdateRow EXCEPT !.id = id, !.title = Some(T_boot), !.price = price]
           updated == update_item(store, id, row.title, row.price, row.quantity, row.category,
                                  row.condition, row.brand, row.upc, clock)
       IN /\ draft' = [row |-> row, corrected |-> row]
          /\ store' = updated.items
          /\ result' = IF updated.ok THEN Ok ELSE Err("update_item", "")
  /\ UNCHANGED <<clock, files, pc, non_interactive, headers, nrows, row_idx, record,
                 failed_rows, imported, skipped, prompts, answer, errs, ei, todo, written, env,
                 validator_vars, cache_vars>>

\* a CSV update batch, or one call of queries::update_item
NextUpdateApi ==
  \/ UpdateStart
  \/ UpdateBadRecord
  \/ UpdateRowStep
  \/ UpdatePrompt
  \/ UpdateEnd
  \/ DirectUpdate
  \/ Tick

SpecUpdateApi == InitUpdate /\ [][NextUpdateApi]_vars

(***************************************************************************)
(* Validate (commands/validate.rs)                                         *)
(***************************************************************************)
SCHEMA_FIELDS ==
  <<"item_id", "title", "description", "price", "quantity", "upc", "category", "condition",
    "brand">>

\* row.get(field).unwrap_or(""), the field counted from 0
RowGet(row, field) == IF field + 1 <= Len(row) THEN row[field + 1] ELSE <<>>

\* validate_row: the errors of one record, by column position
validate_row(row, row_num) ==
  LET title == RowGet(row, 1)
      price == RowGet(row, 3)
      quantity == RowGet(row, 4)
      category == RowGet(row, 6)
      condition == RowGet(row, 7)
      upc == RowGet(row, 5)
      error(f, m, v) == <<ValidationError(f, m, Some(row_num), Some(v))>>
  IN (IF title = <<>> THEN error("title", "Title is required", title)
      ELSE IF ByteLen(title) > TitleLimit
        THEN error("title", "Exceeds eBay's 80-character limit", title)
      ELSE <<>>)
     \o (IF price = <<>> THEN error("price", "Price is required", price)
         ELSE IF ParseF64(price).some
           THEN (IF F64Negative(ParseF64(price).v)
                   THEN error("price", "Price must be non-negative", price)
                   ELSE <<>>)
         ELSE error("price", "Invalid price value", price))
     \o (IF quantity = <<>> THEN error("quantity", "Quantity is required", quantity)
         ELSE IF ParseI32(quantity).some
           THEN (IF ParseI32(quantity).v < 0
                   THEN error("quantity", "Quantity must be non-negative", quantity)
                   ELSE <<>>)
         ELSE error("quantity", "Invalid quantity value", quantity))
     \o (IF category = <<>> THEN error("category", "Category is required", category) ELSE <<>>)
     \o (IF condition = <<>> THEN error("condition", "Condition is required", condition)
         ELSE <<>>)
     \o (IF category = <<"s", "t", "o", "c", "k", "x">> /\ upc = <<>>
           THEN error("upc", "UPC required for StockX", upc)
           ELSE <<>>)

\* handle_validate, lines 77-81: every schema field is the header's column of its place
schema_matches(hdr) ==
  \A i \in 1..Len(SCHEMA_FIELDS) :
    (IF i <= Len(hdr) THEN hdr[i] ELSE "") = SCHEMA_FIELDS[i]

\* the headers of the files given to validate; <<>> is the header of an empty file
ValidateHeaderSet ==
  { SCHEMA_FIELDS,
    SCHEMA_FIELDS \o <<"notes">>,
    <<>>,
    <<"brand", "title", "notes", "price", "quantity", "upc", "category", "condition",
      "description", "item_id">>,
    <<"item_id", "title", "description", "price", "quantity", "upc", "category", "condition">> }

StockxCells == [BaseCells EXCEPT !.category = <<"s", "t", "o", "c", "k", "x">>, !.upc = <<>>]
ValidateRowSet == ImportRowSet \cup {Row(StockxCells, 0), Row(BaseCells, 6)}

\* handle_validate, lines 73-81: open the file, read the header, compare the schema
ValidateStart ==
  /\ pc = "idle"
  /\ stage = "fresh"
  /\ stage' = "validate"
  /\ \E exists \in BOOLEAN, h \in ValidateHeaderSet, n \in 0..MaxRows :
       /\ h = <<>> => n = 0
       /\ headers' = h
       /\ nrows' = n
       /\ IF ~exists THEN result' = Err("Failed to open CSV", "") /\ pc' = "idle"
          ELSE IF ~schema_matches(h) THEN result' = Err("CSV schema mismatch", "") /\ pc' = "idle"
          ELSE result' = Ok /\ pc' = "validate"
  /\ failed_rows' = <<>>
  /\ imported' = 0
  /\ skipped' = 0
  /\ row_idx' = 0
  /\ prompts' = 0
  /\ answer' = <<>>
  /\ record' = NoRecord
  /\ draft' = NoDraft
  /\ errs' = <<>>
  /\ ei' = 0
  /\ pre' = [store |-> store, failed |-> 0, prompts |-> 0]
  /\ UNCHANGED <<store, clock, files, non_interactive, todo, written, env, validator_vars, cache_vars>>

\* handle_validate, lines 83-87: one record validated, its errors collected
ValidateRowStep ==
  /\ pc = "validate"
  /\ row_idx < nrows
  /\ \E row \in ValidateRowSet :
       /\ row.cut <= Len(headers)
       /\ record' = ReaderOk(Layout(headers, row))
       /\ failed_rows' = failed_rows \o validate_row(record'.cells, row_idx + 2)
  /\ row_idx' = row_idx + 1
  /\ pre' = Snapshot
  /\ UNCHANGED <<store, clock, files, stage, result, pc, non_interactive, headers, nrows,
                 imported, skipped, prompts, answer, draft, errs, ei, todo, written, env,
                 validator_vars, cache_vars>>

\* handle_validate, line 84: `let row = result?;` on a record the reader rejects
ValidateBadRecord ==
  /\ pc = "validate"
  /\ row_idx < nrows
  /\ record' = ReaderErr
  /\ row_idx' = row_idx + 1
  /\ pre' = Snapshot
  /\ result' = Err("csv", "")
  /\ pc' = "idle"
  /\ UNCHANGED <<store, clock, files, stage, non_interactive, headers, nrows, failed_rows,
                 imported, skipped, prompts, answer, draft, errs, ei, todo, written, env,
                 validator_vars, cache_vars>>

\* handle_validate, lines 88-99: the failure file and the result
ValidateEnd ==
  /\ pc = "validate"
  /\ row_idx = nrows
  /\ IF failed_rows # <<>>
       THEN /\ files' = WriteFile(files, FailedPath("validate", clock), to_json(failed_rows))
            /\ written' = WriteFile(written, FailedPath("validate", clock), failed_rows)
            /\ result' = Err("Validation failed", "")
       ELSE /\ result' = Ok
            /\ UNCHANGED <<files, written>>
  /\ pc' = "idle"
  /\ UNCHANGED <<store, clock, stage, non_interactive, headers, nrows, row_idx, record,
                 failed_rows, imported, skipped, prompts, answer, draft, errs, ei, todo, pre, env,
                 validator_vars, cache_vars>>

\* one run of the validate command
NextValidate ==
  \/ ValidateStart
  \/ ValidateRowStep
  \/ ValidateBadRecord
  \/ ValidateEnd
  \/ Tick

InitValidate == SessionInit(<<>>) /\ ValidatorIdle

SpecValidate == InitValidate /\ [][NextValidate]_vars

\* a retry file made by hand, as the tests make it
RetryFixturePath == [prefix |-> "retry_input", ts |-> 0]
RetryFixtureSet ==
  { [errors |-> <<[field |-> JStr("title"), message |-> JStr(MsgTitleEmpty), row |-> JNum(2),
                   value |-> JStr(<<>>)]>>],
    [errors |-> <<[field |-> JStr("id"), message |-> JStr("Item not found"), row |-> JNum(2),
                   value |-> JStr(<<"1">>)],
                  [field |-> JStr("price"), message |-> JStr(MsgPriceNegative), row |-> JNull,
                   value |-> JStr(<<"-", "1">>)]>>],
    [errors |-> <<[field |-> JStr("condition"), message |-> JStr(MsgCondition),
                   row |-> JNum(2), value |-> JStr(<<"1">>)]>>] }

\* main: the import command passes non_interactive = false to handle_import
CliImport == ImportStartIn({FALSE}, EnvSet)
\* main: the update command with --retry
CliRetry == stage = "fresh" /\ RetryStart

\* one run of the program: one command, in some environment
NextCli ==
  \/ CliImport
  \/ ImportBadRecord
  \/ ImportRow
  \/ ImportPrompt
  \/ ImportEnd
  \/ UpdateStart
  \/ UpdateBadRecord
  \/ UpdateRowStep
  \/ UpdatePrompt
  \/ UpdateEnd
  \/ CliRetry
  \/ RetryEntry
  \/ RetryPrompt
  \/ RetryEnd
  \/ Tick

InitCli ==
  /\ \E doc \in RetryFixtureSet :
       SessionInitWith(<<Item1, Item2>>, [p \in {RetryFixturePath} |-> doc])
  /\ ValidatorIdle

SpecCli == InitCli /\ [][NextCli]_vars

\* one validator call on one record
InitVal ==
  /\ SessionInit(<<>>)
  /\ v_in \in ValInputSet
  /\ v_rules = NoCall
  /\ v_out = <<>>

NextVal == ValidateTitle \/ ValidateItem

SpecVal == InitVal /\ [][NextVal]_vars

\* threads sharing one QueryCache, each lock-protected section one step
NextCache ==
  \/ \E t \in Threads : CacheGet(t)
  \/ \E t \in Threads : CacheGetRemove(t)
  \/ \E t \in Threads : CacheSetStamp(t)
  \/ \E t \in Threads : CacheSetInsert(t)
  \/ \E t \in Threads : CacheClear(t)
  \/ Tick

SpecCache == Init /\ [][NextCache]_vars

(***************************************************************************)
(* Properties                                                              *)
(***************************************************************************)
Fields(errors) == [i \in 1..Len(errors) |-> errors[i].field]
Messages(errors) == [i \in 1..Len(errors) |-> errors[i].message]
HasMessage(errors, m) == \E i \in 1..Len(errors) : errors[i].message = m

\* the record is valid for StockX in everything but UPC and size
StockxRestValid(r) ==
  validate_common("stockx", r.title, r.price, r.quantity, r.category, r.condition)
    \o validate_opt_brand(r.brand) = <<>>
StockxCall == v_rules = [fn |-> "item", platform |-> "stockx"]

\* C6: a StockX record valid in title, price, quantity, category, condition and
\* brand, with an empty UPC and an empty size, gets exactly two errors: "upc"
\* (the 'required' one, not the digits one) and "size".
C6_StockxEmptyUpcSize ==
  (StockxCall /\ StockxRestValid(v_in) /\ v_in.upc = Some(<<>>) /\ v_in.size = <<>>)
    => /\ Fields(v_out) = <<"upc", "size">>
       /\ v_out[1].message = MsgUpcRequired
       /\ ~HasMessage(v_out, MsgUpcDigits)
C6_Witness ==
  /\ StockxCall /\ StockxRestValid(v_in) /\ v_in.upc = Some(<<>>) /\ v_in.size = <<>>
  /\ v_in.brand = Some(T_nike)
  /\ Len(v_out) = 2

\* the position of a field in the evaluation order of a rule set
FieldRank(platform, field) ==
  CASE field = "title" -> 1
    [] field = "price" -> 2
    [] field = "quantity" -> 3
    [] field = "category" -> 4
    [] field = "condition" -> 5
    [] field = "upc" -> IF platform = "stockx" THEN 6 ELSE 7
    [] field = "size" -> IF platform = "stockx" THEN 7 ELSE 6
    [] field = "brand" ->
         IF platform = "stockx" THEN 8 ELSE IF platform = "poshmark" THEN 7 ELSE 6
    [] OTHER -> 9

C8_TitleBoundary ==
  v_rules.fn = "title"
    => /\ (CharLen(v_in.title) = TitleLimit /\ ~IsBlank(v_in.title)) => v_out = <<>>
       /\ CharLen(v_in.title) = TitleLimit + 1
            => HasMessage(v_out, MsgTitleLimit(v_rules.platform))
       /\ IsBlank(v_in.title) => HasMessage(v_out, MsgTitleEmpty)
\* the entries a step appended to the in-memory ledger
Gained == SubSeq(failed_rows', Len(failed_rows) + 1, Len(failed_rows'))
\* the step reads a well-formed data row of the import batch
ImportReadsRow == pc = "import" /\ row_idx < nrows /\ record'.ok
\* what process_row extracts from the row the step reads
RowRead == ExtractRow(record'.cells, headers)

\* C1: a well-formed import row that passes validation gets exactly one record
\* inserted and no ledger entry, whatever rows came before it.
C1_ValidRowInserted ==
  [][(ImportReadsRow /\ is_valid(ValidateDraft(RowRead)))
       => /\ Len(store') = Len(store) + 1
          /\ failed_rows' = failed_rows]_vars

\* C2: in a non-interactive import, the k-th data row failing validation inserts
\* nothing, prompts nobody, and adds to the ledger exactly its validation errors,
\* each with row = k.
C2_InvalidRowSkipped ==
  [][(ImportReadsRow /\ non_interactive /\ ~is_valid(ValidateDraft(RowRead)))
       => /\ store' = store
          /\ prompts' = prompts
          /\ pc' = "import"
          /\ Fields(Gained) = Fields(ValidateDraft(RowRead))
          /\ Messages(Gained) = Messages(ValidateDraft(RowRead))
          /\ \A i \in 1..Len(Gained) : Gained[i].row = Some(row_idx + 1)]_vars
C2_Witness ==
  /\ pc = "import" /\ non_interactive /\ record.ok
  /\ row_idx = 2
  /\ Len(ValidateDraft(ExtractRow(record.cells, headers))) = 2
  /\ Len(failed_rows) = pre.failed + 2
  /\ failed_rows[Len(failed_rows)].row = Some(2)
  /\ store = pre.store

NineColumns ==
  {"item_id", "title", "description", "price", "quantity", "upc", "category", "condition",
   "brand"}
Columns(hdr) == {hdr[i] : i \in 1..Len(hdr)}

\* C3: an import of a readable file processes rows exactly when the header holds
\* all nine required columns, in any order and among others; otherwise it returns
\* an error naming a column the header lacks, with no row processed, the store as
\* it was and no ledger file.
C3_HeaderPrecondition ==
  (stage = "batch" /\ result.error # "File not found")
    => IF NineColumns \subseteq Columns(headers)
         THEN result.ok /\ (pc = "idle" => row_idx = nrows)
         ELSE /\ ~result.ok
              /\ result.arg \in NineColumns \ Columns(headers)
              /\ pc = "idle"
              /\ row_idx = 0 /\ imported = 0 /\ skipped = 0
              /\ store = pre.store
              /\ files = <<>>
C3_Witness ==
  /\ stage = "batch"
  /\ result = Err("Missing required field", "upc")
  /\ Len(headers) = 8
C3_WitnessProcessed ==
  /\ stage = "batch" /\ pc = "idle" /\ result.ok
  /\ headers[1] = "brand"
  /\ row_idx = 2 /\ imported = 2

FormatMessages == {"Invalid price format", "Invalid quantity format", "CSV parse error"}
PriceUnparsable(rec) == ~ParseF64(UnwrapOr(GetCell(rec.cells, headers, "price"), <<>>)).some
QuantityUnparsable(rec) ==
  ~ParseI32(UnwrapOr(GetCell(rec.cells, headers, "quantity"), <<>>)).some
\* the row is reported with the sentinel's error for the field: at the prompt when
\* the batch is interactive, in the ledger (with the sentinel as value) when not
ReportedNegative(field, message) ==
  IF non_interactive
    THEN \E i \in 1..Len(Gained) :
           /\ Gained[i].field = field /\ Gained[i].message = message
           /\ Gained[i].value = Some(<<"-", "1">>)
    ELSE /\ pc' = "import_prompt"
         /\ \E i \in 1..Len(errs') : errs'[i].field = field /\ errs'[i].message = message

\* C5: an import row whose price (quantity) cell parses as no number is validated
\* with -1 in its place and reported with "Price (Quantity) must be non-negative";
\* no parse or format error is reported for it.
C5_SentinelPolicy ==
  [][ImportReadsRow
       => /\ PriceUnparsable(record') =>
               /\ RowRead.price = Fin(-100)
               /\ ReportedNegative("price", "Price must be non-negative")
          /\ QuantityUnparsable(record') =>
               /\ RowRead.quantity = -1
               /\ ReportedNegative("quantity", "Quantity must be non-negative")
          /\ \A i \in 1..Len(Gained) : Gained[i].message \notin FormatMessages
          /\ \A i \in 1..Len(errs') : errs'[i].message \notin FormatMessages]_vars
C5_Witness ==
  /\ pc = "import" /\ non_interactive /\ record.ok /\ row_idx = 1
  /\ GetCell(record.cells, headers, "price") = Some(T_abc)
  /\ Fields(failed_rows) = <<"price">>
  /\ failed_rows[1].value = Some(<<"-", "1">>)
C5_WitnessQuantity ==
  /\ pc = "import_prompt" /\ record.ok
  /\ GetCell(record.cells, headers, "quantity") = Some(<<>>)
  /\ Messages(errs) = <<"Quantity must be non-negative">>

UpdatableFields == {"title", "price", "quantity", "category", "condition", "brand", "upc"}
\* the trimmed cell of a column of the update row, None when blank or absent
Supplied(rec, hdr, f) ==
  LET c == GetCell(rec.cells, hdr, f)
  IN IF c.some /\ Trim(c.v) # <<>> THEN Some(Trim(c.v)) ELSE None
\* the stored value a supplied cell stands for
StoredAs(f, text) ==
  CASE f = "price" -> ParseF64(text).v
    [] f = "quantity" -> ParseI32(text).v
    [] f \in {"brand", "upc"} -> Some(text)
    [] OTHER -> text
\* the update row is well-formed, names a stored id and passes validation
UpdateRowValid(rec, items) ==
  \A parsed \in {from_record(rec.cells, headers)} :
    /\ parsed.ok
    /\ parsed.row.id \in 1..Len(items)
    /\ \A found \in {get_item_by_id(items, parsed.row.id)} :
         /\ found.ok
         /\ \A fv \in {ForValidation(parsed.row, found.item.v)} : ValidateMerged(fv) = <<>>

\* C4: a valid update row for a stored id sets the fields it supplies to the
\* supplied values and leaves the record's other fields (but the timestamp) and
\* every other record as they were.
C4_PartialUpdateFrame ==
  [][\A rec \in {record'} :
       (pc = "update" /\ row_idx < nrows /\ rec.ok /\ UpdateRowValid(rec, store))
         => \A id \in {ParseI64(Supplied(rec, headers, "id").v).v} :
              /\ Len(store') = Len(store)
              /\ \A j \in 1..Len(store) : j # id => store'[j] = store[j]
              /\ \A f \in UpdatableFields :
                   \A cell \in {Supplied(rec, headers, f)} :
                     IF cell.some
                       THEN store'[id][f] = StoredAs(f, cell.v)
                       ELSE store'[id][f] = store[id][f]
              /\ store'[id].description = store[id].description
              /\ store'[id].status = store[id].status]_vars
C4_Witness ==
  /\ pc = "update" /\ record.ok /\ row_idx = 1
  /\ Len(store) = 2
  /\ headers = <<"id", "price", "quantity", "condition", "notes">>
  /\ Supplied(record, headers, "price") = Some(<<"2", "0", ".", "0">>)
  /\ ~Supplied(record, headers, "quantity").some
  /\ store[1] = [Item1 EXCEPT !.price = Fin(2000), !.last_updated = clock]
  /\ store[2] = Item2
C4_WitnessAll ==
  /\ pc = "update" /\ record.ok /\ row_idx = 1
  /\ Len(headers) = 8
  /\ store[1].title = T_boot /\ store[1].upc = Some(T_upc13) /\ store[1].quantity = 7
  /\ clock = 1 /\ store[1].last_updated = 1

\* the {field, row, value} triples of a ledger
Triples(errors) ==
  [i \in 1..Len(errors) |->
     [field |-> errors[i].field, row |-> errors[i].row, value |-> errors[i].value]]

\* C9: the Retry Loader reads from a ledger file a batch wrote the very sequence of
\* {field, row, value} triples the batch held when it wrote the file.
C9_LedgerRoundTrip ==
  [][(pc = "idle" /\ stage # "retry" /\ stage' = "retry" /\ result'.ok)
       => Triples(todo') = Triples(written[record'.path])]_vars
C9_Witness ==
  /\ stage = "retry" /\ pc = "retry"
  /\ Len(todo) = 2
  /\ todo[1].value = None /\ todo[1].row = Some(1)
  /\ todo[2].value = Some(<<>>) /\ todo[2].row = Some(2)
C9_WitnessNullRow ==
  /\ stage = "retry" /\ pc = "retry"
  /\ Len(todo) >= 1
  /\ todo[1].row = None /\ todo[1].value # None

\* C10: every entry of every ledger file written by import, CSV update or retry
\* carries a row number.
C10_PersistedRowNumbers ==
  \A path \in DOMAIN files :
    \A i \in 1..Len(files[path].errors) : files[path].errors[i].row # JNull
\* the step ends the handling of a data row
RowEnds == pc \in {"import", "import_prompt", "update", "update_prompt"} /\ row_idx' = row_idx + 1
\* the row the step ends failed its first validation
RowFailedValidation(rec) ==
  /\ rec.ok
  /\ IF pc \in {"import", "import_prompt"}
       THEN ~is_valid(ValidateDraft(ExtractRow(rec.cells, headers)))
       ELSE \A parsed \in {from_record(rec.cells, headers)} :
              /\ parsed.ok
              /\ \A found \in {get_item_by_id(store, parsed.row.id)} :
                   /\ found.ok /\ found.item.some
                   /\ ValidateMerged(ForValidation(parsed.row, found.item.v)) # <<>>
\* the loop the batch runs in
LoopOf(at) == IF at \in {"import", "import_prompt"} THEN "import" ELSE "update"

\* C11: in import and in CSV update, the step that ends a row which failed
\* validation (skipped at once, or after a correction session) leaves the batch in
\* its row loop with no error, so the rows after it are read; and a batch that read
\* all its rows returns success.
C11_ValidationNeverAborts ==
  [][/\ \A rec \in {record'} :
          (RowEnds /\ RowFailedValidation(rec))
            => /\ pc' = LoopOf(pc)
               /\ result' = Ok
               /\ Len(store') >= Len(store)
     /\ (pc \in {"import", "update"} /\ row_idx = nrows /\ pc' = "idle") => result' = Ok]_vars
\* a row persisted after a row that failed validation, in import
C11_Witness ==
  /\ pc = "idle" /\ headers = REQUIRED_FIELDS /\ result = Ok
  /\ row_idx = 2 /\ skipped = 1 /\ imported = 1
  /\ Len(failed_rows) = 1 /\ failed_rows[1].row = Some(1)
  /\ Len(store) = Len(pre.store) + 1
\* the same in a CSV update
C11_WitnessUpdate ==
  /\ pc = "idle" /\ "id" \in Columns(headers) /\ result = Ok
  /\ row_idx = 2
  /\ Len(failed_rows) = 1 /\ failed_rows[1].field = "title"
  /\ store[1].price = Fin(2000) /\ pre.store[1].price = Fin(1000)
\* the step reads a record the csv reader rejects
ReadsMalformed == pc \in {"import", "update"} /\ row_idx < nrows /\ row_idx' = row_idx + 1 /\ ~record'.ok

\* C12: in import and in CSV update, a malformed record at row k adds exactly one
\* entry, with field "csv_parse" and row k, to the ledger, persists nothing, and
\* leaves the batch in its row loop for row k+1.
C12_MalformedRowContained ==
  [][ReadsMalformed
       => /\ Len(Gained) = 1
          /\ Gained[1].field = "csv_parse"
          /\ Gained[1].row \in {Some(row_idx + 1), Some(row_idx + 2)}
          /\ store' = store
          /\ pc' = pc
          /\ result' = Ok]_vars
\* the step reads an import row that passes validation and whose insert the store
\* rejects
InsertRejected(rec) ==
  /\ pc = "import" /\ row_idx < nrows /\ rec.ok
  /\ \A d \in {ExtractRow(rec.cells, headers)} :
       /\ is_valid(ValidateDraft(d))
       /\ ~insert_item(store, DraftItem(d), clock).ok

\* C13: when the store rejects the insert of an import row, the error is not
\* returned to the caller: the row is counted as skipped, an entry for the row is
\* appended to the ledger, nothing is stored and the batch goes on with the next row.
C13_PersistenceFailureRecorded ==
  [][\A rec \in {record'} :
       InsertRejected(rec)
         => /\ result' = Ok
            /\ pc' = "import"
            /\ row_idx' = row_idx + 1
            /\ skipped' = skipped + 1
            /\ store' = store
            /\ Len(Gained) >= 1
            /\ \A i \in 1..Len(Gained) : Gained[i].row = Some(row_idx + 1)]_vars
\* the record the update row of the step names, 0 when the row names none
RowTarget(rec) ==
  IF pc \in {"update", "update_prompt"} /\ rec.ok /\ from_record(rec.cells, headers).ok
    THEN from_record(rec.cells, headers).row.id
    ELSE 0

\* C14: no step of an import or CSV update batch removes a record or changes a
\* record other than by the successful update of the row being processed; a step
\* that fails a row or aborts the batch leaves the store as it was.
C14_NoBatchRollback ==
  [][\A rec \in {record'} : \A target \in {RowTarget(rec)} :
       /\ Len(store') >= Len(store)
       /\ \A j \in 1..Len(store) : store'[j] # store[j] => (j = target /\ result' = Ok)
       /\ (result' # Ok \/ Len(failed_rows') > Len(failed_rows)) => store' = store]_vars
\* an import that inserted row 1 and then skipped row 2
C14_Witness ==
  /\ pc = "import" /\ row_idx = 2 /\ imported = 1 /\ skipped = 1
  /\ Len(store) = 3
  /\ Len(failed_rows) >= 1 /\ failed_rows[1].row = Some(2)
\* a CSV update that changed record 1 and was then aborted by a later row
C14_WitnessAbort ==
  /\ pc = "idle" /\ stage = "batch" /\ ~result.ok /\ row_idx = 2
  /\ "id" \in Columns(headers)
  /\ store[1].price = Fin(2000)
IsPrefix(a, b) == Len(a) <= Len(b) /\ SubSeq(b, 1, Len(a)) = a

\* C15: while a run of import, CSV update or retry processes rows its ledger only
\* grows, and the step that ends the run (after the last row, or with an error in
\* the middle) writes one new file holding all accumulated entries when there are
\* any, and no file when there are none.
C15_LedgerWrittenAtEnd ==
  [][pc # "idle"
       => /\ IsPrefix(failed_rows, failed_rows')
          /\ pc' = "idle"
               => IF failed_rows' # <<>>
                    THEN /\ Cardinality(DOMAIN files') = Cardinality(DOMAIN files) + 1
                         /\ \E path \in DOMAIN files' \ DOMAIN files :
                              from_json(files'[path]) = failed_rows'
                    ELSE files' = files]_vars
\* the command waits for a line from the terminal
WaitingForInput == pc \in {"import_prompt", "update_prompt", "retry_prompt"}

\* C16: with INVENTORY_NONINTERACTIVE set, no run of the import, update or retry
\* command reaches a state waiting for terminal input.
C16_SwitchRemovesPrompts == env.noninteractive => ~WaitingForInput
\* C17: in a retry that cannot prompt, no step changes the store or asks anything,
\* and when the loader returns, the ledger it collected and the ledger file it wrote
\* both hold the entries of the input ledger, in the input's order
C17_ScriptedRetryIsIdentity ==
  [][ (stage' = "retry" /\ non_interactive') =>
        /\ store' = store
        /\ prompts' = 0
        /\ pc' # "retry_prompt"
        /\ (pc = "retry" /\ pc' = "idle") =>
              \A path \in {FailedPath("failed_update", clock)} :
                /\ result' = Ok
                /\ failed_rows' = todo
                /\ todo # <<>> =>
                      /\ path \in DOMAIN files'
                      /\ from_json(files'[path]) = todo
                      /\ written'[path] = todo ]_vars
\* a retry without prompts has returned after replaying a ledger of two entries, one
\* of them without a row number
C17_Witness ==
  /\ stage = "retry"
  /\ non_interactive
  /\ pc = "idle"
  /\ result = Ok
  /\ Len(todo) = 2
  /\ \E i \in 1..2 : ~todo[i].row.some
  /\ failed_rows = todo
  /\ FailedPath("failed_update", clock) \in DOMAIN files

\* an update row has been read whose id parses and is the id of no row of the table
ItemNotFound(rec) ==
  /\ pc = "update"
  /\ row_idx' = row_idx + 1
  /\ rec.ok
  /\ \A parsed \in {from_record(rec.cells, headers)} :
       /\ parsed.ok
       /\ \A found \in {get_item_by_id(store, parsed.row.id)} :
            found.ok /\ ~found.item.some
\* C18: an update row whose id is the id of no stored row appends exactly one entry
\* to the ledger (field "id", message "Item not found", the row's line in the file
\* with the header as line 1, the id as value), leaves the store as it was, asks
\* nothing, and the batch goes on to the next row with its result still success
C18_ItemNotFoundRecorded ==
  [][ \A rec \in {record'} :
        ItemNotFound(rec) =>
          /\ failed_rows' =
                Append(failed_rows,
                       [field |-> "id", message |-> "Item not found",
                        row |-> Some(row_idx + 2),
                        value |-> Some(IntToString(from_record(rec.cells, headers).row.id))])
          /\ store' = store
          /\ prompts' = prompts
          /\ pc' = "update"
          /\ result' = Ok ]_vars
\* the row with id 999 has been read as the second row of a batch that may prompt,
\* and the batch has gone on
C18_Witness ==
  /\ stage = "batch"
  /\ ~non_interactive
  /\ pc = "update"
  /\ row_idx = 2
  /\ record.ok
  /\ \E i \in DOMAIN headers : headers[i] = "id"
  /\ Len(failed_rows) >= 1
  /\ failed_rows[Len(failed_rows)] =
       [field |-> "id", message |-> "Item not found", row |-> Some(3),
        value |-> Some(<<"9", "9", "9">>)]
  /\ store = pre.store
\* a batch of two rows, neither found, has returned success with both entries written
C18_WitnessReturned ==
  /\ stage = "batch"
  /\ pc = "idle"
  /\ result = Ok
  /\ Len(failed_rows) = 2
  /\ \A i \in 1..2 : failed_rows[i].message = "Item not found" /\ failed_rows[i].row = Some(i + 1)
  /\ \E path \in DOMAIN written : written[path] = failed_rows

\* no field of the record that lies under an "id" header holds anything but blanks
IdNotGiven(cells, hdr) ==
  \A i \in 1..Len(cells) : (i <= Len(hdr) /\ hdr[i] = "id") => Trim(cells[i]) = <<>>
\* C19: an update row that gives no id (no "id" column in the header, or a blank id
\* cell) ends the update with an error and leaves every stored row as it was; and
\* queries::update_item called with an id that no stored row has returns an error
\* and leaves the table as it was
C19_IdRequired ==
  [][ /\ \A rec \in {record'} :
           (pc = "update" /\ row_idx' = row_idx + 1 /\ rec.ok /\ IdNotGiven(rec.cells, headers)) =>
             /\ ~result'.ok
             /\ pc' = "idle"
             /\ store' = store
      /\ (stage = "fresh" /\ stage' = "direct") =>
           \A found \in {get_item_by_id(store, draft'.row.id)} :
             (found.ok /\ ~found.item.some) => (~result'.ok /\ store' = store) ]_vars
\* the first row of a file whose header has no "id" column has ended the update with
\* an error, the table as it was
C19_Witness ==
  /\ stage = "batch"
  /\ pc = "idle"
  /\ ~result.ok
  /\ \A i \in DOMAIN headers : headers[i] # "id"
  /\ row_idx = 1
  /\ record.ok
  /\ store = pre.store
\* a row with a blank id under an "id" header has ended the update after an earlier
\* row changed the table
C19_WitnessBlankId ==
  /\ stage = "batch"
  /\ pc = "idle"
  /\ ~result.ok
  /\ \E i \in DOMAIN headers : headers[i] = "id"
  /\ row_idx = 2
  /\ record.ok
  /\ IdNotGiven(record.cells, headers)
  /\ store = pre.store
  /\ store[1].last_updated = clock
  /\ store[1].price # Fin(1000)
\* update_item has been called with id 999 and has returned an error
C19_WitnessDirect ==
  /\ stage = "direct"
  /\ draft.row.id = 999
  /\ ~result.ok
  /\ store = pre.store
\* update_item has been called with the id of a stored row and has changed it
C19_WitnessDirectChanged ==
  /\ stage = "direct"
  /\ draft.row.id = 2
  /\ result.ok
  /\ store # pre.store

\* the rules of the eBay rule set, as the reference states them
EbayTitleRule(in) == ~IsBlank(in.title) /\ CharLen(in.title) <= TitleLimit
EbayPriceRule(in) == in.price.k = "fin" /\ in.price.c >= 0 /\ in.price.c <= PriceMaxCents
EbayQuantityRule(in) == in.quantity >= 0 /\ in.quantity <= QuantityMax
EbayCategoryRule(in) == ~IsBlank(in.category)
EbayConditionRule(in) == ToLowercase(in.condition) \in valid_conditions
EbayBrandRule(in) == in.brand.some => CharLen(in.brand.v) <= BrandLimit
EbayUpcRule(in) ==
  (in.upc.some /\ ~IsBlank(in.upc.v)) => DigitCount(in.upc.v) \in {UpcShort, UpcLong}
\* C20: validate_item_ebay returns no error exactly when the record keeps every rule
\* of the eBay rule set (title non-blank and at most 80 characters, price in
\* [0, 999999.99], quantity in [0, 999999], category non-blank, condition one of the
\* six names whatever its case, brand at most 100 characters if present, UPC of 12 or
\* 13 digits if present and non-blank), and every rule that is broken has an error
\* naming its field
C20_EbayReferencePredicate ==
  v_rules = [fn |-> "item", platform |-> "ebay"]
    => /\ v_out = <<>> <=>
            /\ EbayTitleRule(v_in)
            /\ EbayPriceRule(v_in)
            /\ EbayQuantityRule(v_in)
            /\ EbayCategoryRule(v_in)
            /\ EbayConditionRule(v_in)
            /\ EbayBrandRule(v_in)
            /\ EbayUpcRule(v_in)
       /\ \A e \in {Fields(v_out)} :
            /\ ~EbayTitleRule(v_in) => \E i \in DOMAIN e : e[i] = "title"
            /\ ~EbayPriceRule(v_in) => \E i \in DOMAIN e : e[i] = "price"
            /\ ~EbayQuantityRule(v_in) => \E i \in DOMAIN e : e[i] = "quantity"
            /\ ~EbayCategoryRule(v_in) => \E i \in DOMAIN e : e[i] = "category"
            /\ ~EbayConditionRule(v_in) => \E i \in DOMAIN e : e[i] = "condition"
            /\ ~EbayBrandRule(v_in) => \E i \in DOMAIN e : e[i] = "brand"
            /\ ~EbayUpcRule(v_in) => \E i \in DOMAIN e : e[i] = "upc"

\* the digits of a UPC, every other character removed
StripNonDigits(upc) == SelectSeq(upc, IsAsciiDigit)
UpcFormatRule(upc) == Len(StripNonDigits(upc)) \in {UpcShort, UpcLong}
\* the errors of an outcome that name the UPC
UpcErrors(out) == SelectSeq(out, LAMBDA e : e.field = "upc")
\* C21: the StockX rule set accepts a UPC exactly when 12 or 13 digits remain once
\* every other character is removed, and answers a blank UPC with the single error
\* that a UPC is required; the eBay rule set accepts a blank UPC and, for any other
\* UPC, accepts it exactly when the StockX validator does
C21_UpcRule ==
  /\ v_rules = [fn |-> "item", platform |-> "stockx"] =>
       /\ UpcErrors(v_out) = <<>> <=> UpcFormatRule(v_in.upc.v)
       /\ IsBlank(v_in.upc.v) => Messages(UpcErrors(v_out)) = <<MsgUpcRequired>>
       /\ Len(UpcErrors(v_out)) <= 1
  /\ (v_rules = [fn |-> "item", platform |-> "ebay"] /\ v_in.upc.some) =>
       /\ IsBlank(v_in.upc.v) => UpcErrors(v_out) = <<>>
       /\ ~IsBlank(v_in.upc.v) =>
            /\ UpcErrors(v_out) = <<>> <=> validate_upc_stockx(v_in.upc.v) = <<>>
            /\ UpcErrors(v_out) = <<>> <=> UpcFormatRule(v_in.upc.v)
\* the StockX rule set has accepted a UPC of 12 digits written with dashes
C21_Witness ==
  /\ v_rules = [fn |-> "item", platform |-> "stockx"]
  /\ v_in.upc = Some(T_upc_dashed)
  /\ Len(v_in.upc.v) > UpcLong
  /\ UpcErrors(v_out) = <<>>
\* the eBay rule set has accepted a UPC of one blank
C21_WitnessEbayBlank ==
  /\ v_rules = [fn |-> "item", platform |-> "ebay"]
  /\ v_in.upc = Some(<<" ">>)
  /\ UpcErrors(v_out) = <<>>
\* both rule sets have refused a UPC of 14 digits and one of 11
C21_WitnessRefused ==
  /\ v_rules.fn = "item"
  /\ v_rules.platform \in {"stockx", "ebay"}
  /\ v_in.upc \in {Some(Tail(T_upc12)), Some(T_upc13 \o <<"4">>)}
  /\ Messages(UpcErrors(v_out)) = <<MsgUpcDigits>>

\* the validate command returns, its file having been opened
ValidateReturns ==
  /\ stage' = "validate"
  /\ pc' = "idle"
  /\ pc = "validate" \/ stage = "fresh"
  /\ result'.error # "Failed to open CSV"
\* the header's first nine columns are the schema fields in schema order
NineSchemaColumns(hdr) ==
  Len(hdr) >= Len(SCHEMA_FIELDS) /\ SubSeq(hdr, 1, Len(SCHEMA_FIELDS)) = SCHEMA_FIELDS
\* every data row of the file was read and none of them had an error
ValidateRowsClean ==
  /\ row_idx' = nrows
  /\ nrows = 0 \/ record'.ok
  /\ failed_rows' = <<>>
\* the command returns success exactly for a matching header and rows without errors
ValidateSuccessRule == result'.ok <=> (NineSchemaColumns(headers') /\ ValidateRowsClean)
\* a header that does not match ends the command with an error before any row is read
ValidateMismatchRule ==
  ~NineSchemaColumns(headers') =>
    ~result'.ok /\ row_idx' = 0 /\ record' = NoRecord /\ failed_rows' = <<>>
\* the failure file exists exactly when some row had an error
ValidateFileRule ==
  (FailedPath("validate", clock) \in DOMAIN files') <=> failed_rows' # <<>>
\* C22: when the validate command returns, it returns success exactly if the first
\* nine columns of the header are the schema fields in schema order and every data
\* row has no error; a header that does not match (the header of an empty file
\* included) gives an error before any row is examined; and the failure file has
\* been written exactly if at least one row had an error
C22_ValidateOutcome ==
  [][ ValidateReturns => (ValidateSuccessRule /\ ValidateMismatchRule /\ ValidateFileRule) ]_vars

\* the errors of an outcome that name a field the update row has a non-blank cell for
SuppliedErrors(errors, rec, hdr) ==
  SelectSeq(errors, LAMBDA e : Supplied(rec, hdr, e.field).some)
\* the outcome of the merged values of an update row that names a stored record
MergedOutcome(rec, items) ==
  LET row == from_record(rec.cells, headers).row
  IN ValidateMerged(ForValidation(row, get_item_by_id(items, row.id).item.v))
C23_WitnessUnsuppliedOnly ==
  /\ stage = "batch"
  /\ non_interactive
  /\ pc = "update"
  /\ row_idx = 1
  /\ record.ok
  /\ from_record(record.cells, headers).ok
  /\ from_record(record.cells, headers).row.id = 2
  /\ Len(store) = 2
  /\ Fields(MergedOutcome(record, store)) = <<"condition">>
  /\ failed_rows = <<>>
  /\ store = pre.store

\* a correction prompt of an import or update row is answered
PromptAnswered == pc \in {"import_prompt", "update_prompt"} /\ prompts' = prompts + 1
\* the entries the ledger holds for the row in hand after the step
RowEntries == SubSeq(failed_rows', pre.failed + 1, Len(failed_rows'))
NoDuplicates(entries) == \A i, j \in 1..Len(entries) : i < j => entries[i] # entries[j]
\* the session of the row ends with the row skipped
SessionEndsSkipped ==
  /\ pc' = LoopOf(pc)
  /\ row_idx' = row_idx + 1
  /\ store' = store
\* C24: in an import or update that prompts, an empty answer to a correction prompt
\* ends the session of the row at once with the row skipped: no further prompt for
\* the row, no record inserted or updated, and no error of the row in the ledger twice
C24_EmptyAnswerSkipsRow ==
  [][ (PromptAnswered /\ answer' = <<>>) => (SessionEndsSkipped /\ NoDuplicates(RowEntries)) ]_vars

\* the prompt answered is that of a price or quantity error and the answer, not
\* empty, parses as no number of the field's type
UnparsableAnswer ==
  /\ PromptAnswered
  /\ answer' # <<>>
  /\ \/ errs[ei].field = "price" /\ ~ParseF64(answer').some
     \/ errs[ei].field = "quantity" /\ ~ParseI32(answer').some
\* the format errors among the entries that name the field
FormatEntries(entries, f) ==
  SelectSeq(entries, LAMBDA e : e.field = f /\ e.message \in FormatMessages)
\* the value the session holds for a field
SessionValue(d, f) == IF pc = "import_prompt" THEN d[f] ELSE d.corrected[f]
\* the row has an error after the one prompted for that a prompt is due for
LaterPromptDue ==
  \E i \in (ei + 1)..Len(errs) :
    pc = "update_prompt" => Supplied(record, headers, errs[i].field).some
\* C25: in an import or update that prompts, an answer for price or quantity that is
\* not empty and parses as no number adds exactly one format error for that field
\* to the ledger, leaves the value the session holds for the field as it was, and
\* the session goes on to the row's next error when there is one
C25_UnparsableAnswerRecorded ==
  [][ UnparsableAnswer =>
        \A f \in {errs[ei].field} :
          /\ Len(FormatEntries(Gained, f)) = 1
          /\ SessionValue(draft', f) = SessionValue(draft, f)
          /\ LaterPromptDue => (pc' = pc /\ ei' > ei /\ row_idx' = row_idx) ]_vars

\* an entry without its row number
Bare(errors) ==
  [i \in 1..Len(errors) |->
     [field |-> errors[i].field, message |-> errors[i].message, value |-> errors[i].value]]
\* the entries the row has in the ledger before the step
RowEntriesBefore == SubSeq(failed_rows, pre.failed + 1, Len(failed_rows))
\* the last prompt of a row's session is answered, and neither this answer nor an
\* earlier one of the session was empty
SessionCompleted ==
  /\ PromptAnswered
  /\ answer' # <<>>
  /\ ~LaterPromptDue
  /\ \A i \in 1..Len(RowEntriesBefore) : RowEntriesBefore[i].message \in FormatMessages
\* the outcome of the merged values the session ends with
MergedAfterSession ==
  IF pc = "import_prompt" THEN ValidateDraft(draft')
  ELSE Revalidate(draft'.corrected,
                  ForValidation(draft.row, get_item_by_id(store, draft.row.id).item.v))
\* the row is persisted with the values the session ends with
PersistedAsCorrected ==
  IF pc = "import_prompt"
    THEN /\ Len(store') = Len(store) + 1
         /\ SubSeq(store', 1, Len(store)) = store
         /\ \A f \in {"title", "price", "quantity", "category", "condition"} :
              store'[Len(store')][f] = draft'[f]
         /\ store'[Len(store')].brand = OptNonEmpty(draft'.brand)
         /\ store'[Len(store')].upc = OptNonEmpty(draft'.upc)
    ELSE \A id \in {draft.row.id} :
           /\ Len(store') = Len(store)
           /\ \A j \in 1..Len(store) : j # id => store'[j] = store[j]
           /\ \A f \in {"title", "price", "quantity", "category", "condition"} :
                store'[id][f] = UnwrapOr(draft'.corrected[f], store[id][f])
           /\ \A f \in {"brand", "upc"} :
                store'[id][f] = IF draft'.corrected[f].some THEN draft'.corrected[f]
                                ELSE store[id][f]
\* the entries of the step that are no format errors
OutcomeEntries == SelectSeq(Gained, LAMBDA e : e.message \notin FormatMessages)
\* C26: when the last prompt of a row's session is answered and every answer of the
\* session was non-empty, the merged values are validated and the row's session
\* ends there, without a second round of prompts: with an empty outcome the row is
\* persisted with the corrected values for corrected fields and the original values
\* for the others; with a non-empty outcome nothing is persisted and the errors
\* added to the ledger are those of that outcome, not those of the values before
\* correction
C26_SingleRevalidation ==
  [][ SessionCompleted =>
        /\ pc' = LoopOf(pc)
        /\ row_idx' = row_idx + 1
        /\ \A outcome \in {MergedAfterSession} :
             IF outcome = <<>>
               THEN PersistedAsCorrected /\ OutcomeEntries = <<>>
               ELSE store' = store /\ Bare(OutcomeEntries) = Bare(outcome) ]_vars

\* the row supplies the field: an update row by a non-blank cell under the field's
\* header, an import row, whose cells are all read, by a cell under it
RowSupplies(at, rec, f) ==
  IF at \in {"import", "import_prompt"} THEN GetCell(rec.cells, headers, f).some
  ELSE Supplied(rec, headers, f).some
\* the outcome of the row's values as read: the initial outcome of its session
InitialOutcome(at, rec, items) ==
  IF at \in {"import", "import_prompt"} THEN ValidateDraft(ExtractRow(rec.cells, headers))
  ELSE MergedOutcome(rec, items)
\* the prompt the session waits at is that of an error of the initial outcome on a
\* field the row supplied
PromptEligible ==
  \A initial \in {InitialOutcome(pc, record, store)} :
    /\ ei \in 1..Len(initial)
    /\ errs[ei].field = initial[ei].field
    /\ errs[ei].message = initial[ei].message
    /\ RowSupplies(pc, record, errs[ei].field)
\* a row is read, by a batch that prompts, whose outcome has errors, all of them on
\* fields the row did not supply
OnlyUnsuppliedErrors(rec) ==
  /\ pc \in {"import", "update"}
  /\ ~non_interactive
  /\ row_idx' = row_idx + 1 \/ pc' \in {"import_prompt", "update_prompt"}
  /\ RowFailedValidation(rec)
  /\ \A initial \in {InitialOutcome(pc, rec, store)} :
       \A i \in 1..Len(initial) : ~RowSupplies(pc, rec, initial[i].field)
\* C27: in a session that prompts, every prompt is that of an error of the row's
\* initial outcome on a field the row supplied; the session moves forward through
\* the errors, so none is prompted twice, and the prompts of a row never outnumber
\* the errors of its initial outcome; a row whose errors are all on fields it did
\* not supply gets no prompt and is not persisted
C27_PromptEligibility ==
  [][ /\ pc \in {"import_prompt", "update_prompt"} => PromptEligible
      /\ PromptAnswered =>
           /\ prompts' - pre.prompts <= Len(InitialOutcome(pc, record, store))
           /\ pc' = pc => ei' > ei
      /\ \A rec \in {record'} :
           OnlyUnsuppliedErrors(rec) =>
             /\ pc' = pc
             /\ prompts' = prompts
             /\ store' = store ]_vars

\* a prompt of the retry loader is answered
RetryAnswered == pc = "retry_prompt" /\ prompts' = prompts + 1
\* the reply is a value the eBay rule set accepts for the field
ValidReplacement(f, a) ==
  CASE f = "title" -> ~IsBlank(a) /\ CharLen(a) <= TitleLimit
    [] f = "price" ->
         ParseF64(a).some /\ ParseF64(a).v.k = "fin" /\ ParseF64(a).v.c >= 0
           /\ ParseF64(a).v.c <= PriceMaxCents
    [] f = "quantity" -> ParseI32(a).some /\ ParseI32(a).v >= 0 /\ ParseI32(a).v <= QuantityMax
    [] f = "category" -> ~IsBlank(a)
    [] f = "condition" -> ToLowercase(a) \in valid_conditions
    [] OTHER -> FALSE
\* C28: in a retry that prompts, a reply that is a valid value for the entry's field,
\* given for a target id that the store holds, updates that field of the target
\* record to the reply, leaves the rest of the store as it was, and puts nothing
\* into the new ledger for the entry
C28_RetrySuccessPath ==
  [][ (RetryAnswered /\ ValidReplacement(todo[row_idx + 1].field, answer')
         /\ draft'.corrected.id \in 1..Len(store)) =>
        \A id \in {draft'.corrected.id}, f \in {todo[row_idx + 1].field} :
          /\ Len(store') = Len(store)
          /\ store'[id][f] = StoredAs(f, answer')
          /\ \A j \in 1..Len(store) : j # id => store'[j] = store[j]
          /\ failed_rows' = failed_rows ]_vars

\* the integer an entry's carried value reads as, if it reads as one
CarriedId(error) == IF error.value.some THEN ParseI64(error.value.v) ELSE [some |-> FALSE]
\* the answered prompt goes on to the lookup of update.rs:306
RetryLooksUp ==
  /\ RetryAnswered
  /\ answer' # <<>>
  /\ ~RetryCorrection(draft.row, todo[row_idx + 1], answer').done
\* the entries the step adds to the new ledger
RetryAdded == SubSeq(failed_rows', Len(failed_rows) + 1, Len(failed_rows'))
\* C29: when the retry loader goes on to look a record up for an entry whose field is
\* not "id" and whose carried value reads as an integer n, the id it looks up is not
\* n, the new ledger gets no "Item not found" entry naming n, and a stored record n
\* is left as it was
C29_RetryTargetResolution ==
  [][ (RetryLooksUp /\ todo[row_idx + 1].field # "id" /\ CarriedId(todo[row_idx + 1]).some) =>
        \A n \in {CarriedId(todo[row_idx + 1]).v} :
          /\ draft'.corrected.id # n
          /\ \A k \in DOMAIN RetryAdded :
               ~(RetryAdded[k].field = "id" /\ RetryAdded[k].message = "Item not found"
                   /\ RetryAdded[k].value = Some(IntToString(n)))
          /\ n \in 1..Len(store) => (Len(store') = Len(store) /\ store'[n] = store[n]) ]_vars

\* a cell of the record under a "price" or "quantity" header that is not blank and
\* does not read as a number
UnparsableNumber(cells, hdr) ==
  \E i \in 1..Len(cells) :
    /\ i <= Len(hdr)
    /\ Trim(cells[i]) # <<>>
    /\ \/ hdr[i] = "price" /\ ~ParseF64(Trim(cells[i])).some
       \/ hdr[i] = "quantity" /\ ~ParseI32(Trim(cells[i])).some
\* the record lies within the header and gives an id that reads as a non-zero integer
IdGiven(cells, hdr) ==
  /\ Len(cells) <= Len(hdr)
  /\ \E i \in 1..Len(cells) : hdr[i] = "id" /\ Trim(cells[i]) # <<>>
  /\ \A i \in 1..Len(cells) :
       (hdr[i] = "id" /\ Trim(cells[i]) # <<>>) =>
         (ParseI64(Trim(cells[i])).some /\ ParseI64(Trim(cells[i])).v # 0)
\* C30: an update row with a usable id whose price or quantity cell does not read as
\* a number does not end the batch: the command is still running without an error
\* after the row, the store is as the rows before it left it, and without a terminal
\* the ledger gains a "must be non-negative" entry for the row
C30_NumericParsePolicy ==
  [][ \A rec \in {record'} :
        (pc = "update" /\ row_idx' = row_idx + 1 /\ rec.ok
           /\ IdGiven(rec.cells, headers) /\ UnparsableNumber(rec.cells, headers)) =>
          /\ result'.ok
          /\ pc' # "idle"
          /\ store' = store
          /\ non_interactive =>
               \E k \in DOMAIN failed_rows' :
                 /\ k > Len(failed_rows)
                 /\ failed_rows'[k].message \in {MsgPriceNegative, MsgQuantityNegative}
                 /\ failed_rows'[k].row = Some(UpdateRowNumber(row_idx')) ]_vars

\* the record has a cell under a header of the field, and every such cell is blank
SuppliedBlank(cells, hdr, f) ==
  /\ \E i \in 1..Len(cells) : i <= Len(hdr) /\ hdr[i] = f
  /\ \A i \in 1..Len(cells) : (i <= Len(hdr) /\ hdr[i] = f) => Trim(cells[i]) = <<>>
\* the update row is read, extracted without an error, and names a stored record
UpdateRowOfStored(rec) ==
  /\ pc = "update"
  /\ row_idx' = row_idx + 1 \/ pc' = "update_prompt"
  /\ rec.ok
  /\ from_record(rec.cells, headers).ok
  /\ get_item_by_id(store, from_record(rec.cells, headers).row.id).ok
  /\ get_item_by_id(store, from_record(rec.cells, headers).row.id).item.some
\* C31: an update row that names a stored record and has a blank cell under the
\* "title" header is taken as supplying an empty title: the row does not change the
\* store, and without a terminal the ledger gains a title entry for it
C31_BlankIsSupplied ==
  [][ \A rec \in {record'} :
        (UpdateRowOfStored(rec) /\ SuppliedBlank(rec.cells, headers, "title")) =>
          /\ store' = store
          /\ non_interactive =>
               \E k \in DOMAIN failed_rows' :
                 /\ k > Len(failed_rows)
                 /\ failed_rows'[k].field = "title"
                 /\ failed_rows'[k].row = Some(UpdateRowNumber(row_idx)) ]_vars

\* a data row is read by import or update and its step is over
BatchRowRead(rec) ==
  /\ pc \in {"import", "update"}
  /\ row_idx' = row_idx + 1
  /\ rec.ok
\* the entries the step adds to the ledger
LedgerAdded == SubSeq(failed_rows', Len(failed_rows) + 1, Len(failed_rows'))
\* the entry's value is the text of the cell, as it stands or without the blanks
\* around it
ValueAsSupplied(e, cell) == e.value \in {Some(cell), Some(Trim(cell))}
\* the row's cell for the field, when it has one that is not blank
FilledCell(rec, f) ==
  IF GetCell(rec.cells, headers, f).some /\ Trim(GetCell(rec.cells, headers, f).v) # <<>>
    THEN GetCell(rec.cells, headers, f)
    ELSE None
\* C32: every entry that the step of an import or update row adds to the ledger for
\* a field the row fills in carries the text of that cell as its value
C32_OffendingValueAsSupplied ==
  [][ \A rec \in {record'} :
        BatchRowRead(rec) =>
          \A k \in DOMAIN LedgerAdded :
            \A cell \in {FilledCell(rec, LedgerAdded[k].field)} :
              cell.some => ValueAsSupplied(LedgerAdded[k], cell.v) ]_vars

\* an import batch ends with a ledger that is not empty
LedgerPersisted == pc = "import" /\ pc' = "idle" /\ result'.ok /\ failed_rows # <<>>
\* C33: a file of the retry directory, once written, keeps its name and its content
\* through every later step, and a batch that ends with a non-empty ledger adds a
\* file that was not there before
C33_RetryFilesWriteOnce ==
  [][ /\ \A p \in DOMAIN files : p \in DOMAIN files' /\ files'[p] = files[p]
      /\ LedgerPersisted => \E p \in DOMAIN files' : p \notin DOMAIN files ]_vars

\* the step ends a data row that is not persisted: an import row counted as skipped,
\* or an update row that names no stored record or fails validation as read and after
\* which the batch goes on
RowNotPersisted(rec) ==
  \/ /\ pc \in {"import", "import_prompt"}
     /\ row_idx' = row_idx + 1
     /\ imported' = imported
  \/ /\ pc = "update"
     /\ row_idx' = row_idx + 1
     /\ pc' = "update"
     /\ RowFailedValidation(rec) \/ ItemNotFound(rec)
\* C34: the step that ends an import or update row without persisting it adds at
\* least one entry to the ledger
C34_NoSilentSkip ==
  [][ \A rec \in {record'} : RowNotPersisted(rec) => Gained # <<>> ]_vars

\* the retry loader is done with an entry of the input ledger and goes on
RetryEntryProcessed ==
  /\ pc \in {"retry", "retry_prompt"}
  /\ row_idx' = row_idx + 1
  /\ pc' = "retry"
\* C35: the step in which the retry loader is done with an entry either changes the
\* store or adds at least one entry to the new ledger
C35_RetryConservation ==
  [][ RetryEntryProcessed => (store' # store \/ Gained # <<>>) ]_vars

\* C36: in handle_import's row loop imported + skipped is the number of data rows
\* consumed so far; the step that ends a row adds one to exactly one of the two
\* counters, to imported exactly when it inserts a record; and at the end of the
\* batch imported is the number of records the batch inserted and imported + skipped
\* the number of data rows of the file
C36_ImportCounters ==
  [][ /\ pc \in {"import", "import_prompt"} => imported + skipped = row_idx
      /\ (pc \in {"import", "import_prompt"} /\ row_idx' = row_idx + 1) =>
           /\ \/ imported' = imported + 1 /\ skipped' = skipped
              \/ imported' = imported /\ skipped' = skipped + 1
           /\ Len(store') = Len(store) + (imported' - imported)
      /\ (pc \in {"import", "import_prompt"} /\ row_idx' = row_idx) =>
           (imported' = imported /\ skipped' = skipped /\ store' = store)
      /\ (pc = "import" /\ pc' = "idle") =>
           /\ Len(store') = imported'
           /\ imported' + skipped' = nrows' ]_vars
\* an import of two rows has ended with one row inserted and one skipped
C36_Witness ==
  /\ stage = "batch"
  /\ pc = "idle"
  /\ result.ok
  /\ headers = REQUIRED_FIELDS
  /\ nrows = 2
  /\ imported = 1
  /\ skipped = 1
  /\ Len(store) = 1
\* an import has ended with a row skipped after a prompt and a malformed record
\* skipped
C36_WitnessPrompted ==
  /\ stage = "batch"
  /\ pc = "idle"
  /\ result.ok
  /\ nrows = 2
  /\ imported = 0
  /\ skipped = 2
  /\ prompts > 0
  /\ ~record.ok

\* the validate command reads a well-formed data row
ValidateReadsRow(rec) == pc = "validate" /\ row_idx' = row_idx + 1 /\ rec.ok
\* the import pipeline accepts the record under the header
ImportAccepts(rec, hdr) == is_valid(ValidateDraft(ExtractRow(rec.cells, hdr)))
\* C37: under a header that has the schema columns in schema order, validate_row
\* reports no error for a data row exactly when import's validation of the values
\* extracted from it reports none
C37_ValidateAgreesWithImport ==
  [][ \A rec \in {record'} :
        ValidateReadsRow(rec) =>
          (validate_row(rec.cells, row_idx + 2) = <<>> <=> ImportAccepts(rec, headers)) ]_vars

\* thread t begins a get while no other call of the cache is in progress
SequentialGet(t) ==
  /\ \A u \in Threads : threads[u].at = "idle"
  /\ threads'[t].op = "get"
  /\ cache_ops' = cache_ops + 1
  /\ threads'[t] # threads[t]
\* thread t's get removes the entry it found expired
ExpiryCleanup(t) == threads[t].at = "get_expired" /\ threads'[t].at = "idle"
\* C38: the cleanup of a get that found an expired entry never removes an entry that
\* is unexpired when the cleanup runs (one that a set of another thread wrote in
\* between); and a get begun while no other call is in progress returns the stored
\* value and counts one hit when the key holds an unexpired entry, and otherwise
\* ends, at once or with its cleanup, returning none and counting one miss
C38_CacheUnderConcurrentUse ==
  [][ \A t \in Threads :
        /\ ExpiryCleanup(t) =>
             \A k \in {threads[t].key} :
               /\ (cache[k].some /\ Unexpired(cache[k].v, clock)) => cache'[k] = cache[k]
               /\ threads'[t].ret = None
               /\ cache_misses' = cache_misses + 1
               /\ cache_hits' = cache_hits
        /\ SequentialGet(t) =>
             \A k \in {threads'[t].key} :
               IF cache[k].some /\ Unexpired(cache[k].v, clock)
                 THEN /\ threads'[t].at = "idle"
                      /\ threads'[t].ret = Some(cache[k].v.data)
                      /\ cache_hits' = cache_hits + 1
                      /\ cache_misses' = cache_misses
                      /\ cache' = cache
               ELSE IF cache[k].some
                 THEN /\ threads'[t].at = "get_expired"
                      /\ cache_hits' = cache_hits
                      /\ cache_misses' = cache_misses
                      /\ cache' = cache
               ELSE /\ threads'[t].at = "idle"
                    /\ threads'[t].ret = None
                    /\ cache_misses' = cache_misses + 1
                    /\ cache_hits' = cache_hits
                    /\ cache' = cache ]_vars

====
